---- MODULE Spec2Model ----
(***************************************************************************)
(* Model of the screening engine of tradesensei (src/utils/screener.py,    *)
(* src/utils/fundamentals.py, src/utils/market_data.py), of the indicator  *)
(* functions of src/app.py, and of the scheduler, the news cache and the   *)
(* portfolio (src/utils/scheduler.py, news_scraper.py, portfolio.py).      *)
(*                                                                         *)
(* Numbers.  Python floats are modelled by integers:                       *)
(*   - fundamental ratios are held in hundredths (pe 15.0 -> 1500,         *)
(*     roe 0.15 -> 15, debt/equity 0.5 -> 50), market cap in millions;     *)
(*   - scores are held in twelfths of a point (ScoreScale), which makes    *)
(*     score / total_indicators * 100 exact for the totals 60 and 80;      *)
(*   - weights are held in hundredths (0.6 -> 60).                         *)
(* None, NaN and float('inf') are distinguished integers outside the       *)
(* range of the data.                                                      *)
(***************************************************************************)
EXTENDS Integers, Sequences, FiniteSets, TLC

VARIABLES cache, now, provider, last, threads, stock_universe, df,
          scheduler, news, holdings

vars == <<cache, now, provider, last, threads, stock_universe, df,
          scheduler, news, holdings>>

---------------------------------------------------------------------------
(* Bounds of the model *)

MaxTime == 2

NumCallers == 2

\* the loop threads a TradingScheduler gets to start
MaxLoops == 3

\* the largest quantity of one symbol a portfolio gets to hold
MaxQuantity == 4

\* the seconds the clock of the news aggregator runs for
MaxClock == 90000

\* NewsAggregator.cache_duration, in seconds
cache_duration == 3600

\* timedelta.seconds counts the seconds within the last day of the interval
SecondsPerDay == 86400

---------------------------------------------------------------------------
(* Program constants and python values *)

None == -9999

NaN == -9998

Inf == 999999

ScoreScale == 12

\* timedelta(hours=1), in clock ticks of 30 minutes
cache_expiry == 2

\* a universe that lists one symbol twice
DuplicatedStocks == <<"RELIANCE", "TCS", "RELIANCE">>

\* the head of the universe list (order as in the source: not sorted)
INDIAN_STOCKS == <<"RELIANCE", "TCS", "HDFCBANK">>

\* the symbols the providers know
Symbols == {INDIAN_STOCKS[i] : i \in 1..Len(INDIAN_STOCKS)}

\* python truthiness of a number or None: None and 0 are falsy, NaN is truthy
Truthy(x) == x # None /\ x # 0

\* a <= b on floats: False when either side is NaN
Le(a, b) == a # NaN /\ b # NaN /\ a <= b

Lt(a, b) == a # NaN /\ b # NaN /\ a < b

\* {**a, **b}
Merge(a, b) == [k \in DOMAIN a \cup DOMAIN b |-> IF k \in DOMAIN b THEN b[k] ELSE a[k]]

\* d.get(k, default)
Get(d, k, default) == IF k \in DOMAIN d THEN d[k] ELSE default

Min2(a, b) == IF a <= b THEN a ELSE b

---------------------------------------------------------------------------
(* Provider data.  A fundamentals bundle is the dict of get_fundamental_data *)
(* flattened to the fields the screener and the score read; a technical row *)
(* is the DataFrame of calculate_technical_indicators reduced to its number *)
(* of bars and the values the screens read from its last rows.  Supertrend  *)
(* and Supertrend_Signal are the last row of _calculate_supertrend of it:   *)
(* with the period of 10 the final bands start as NaN and stay NaN, so the  *)
(* value is NaN and the signal 'Sell' on every row.                         *)

BaseFund ==
    [market_cap |-> 5000, sector |-> "Technology", pe_ratio |-> 1500,
     price_to_book |-> 200, roe |-> 20, profit_margin |-> 12,
     debt_to_equity |-> 40, current_ratio |-> 160, revenue_growth |-> 12,
     earnings_growth |-> 8, dividend_yield |-> 3]

\* get_fundamental_data returns {} when the provider fails
EmptyBundle == <<>>

BaseTech ==
    [nbars |-> 60, Close |-> 100, RSI |-> 50, SMA_20 |-> 95, SMA_50 |-> 90,
     MACD |-> 3, MACD_Signal |-> 2, Volume |-> 200, Volume_avg20 |-> 100,
     High_max20_prev |-> 98, Supertrend |-> NaN, Supertrend_Signal |-> "Sell"]

\* get_stock_data returns an empty DataFrame when the provider fails
EmptyFrame == [BaseTech EXCEPT !.nbars = 0]

BasePayload == [fundamental |-> BaseFund, technical |-> BaseTech]

\* a PE of exactly 0; 14 falling closes in a row (RSI of exactly 0)
ZeroPayload ==
    [fundamental |-> [BaseFund EXCEPT !.pe_ratio = 0],
     technical |-> [BaseTech EXCEPT !.RSI = 0, !.Close = 80, !.MACD = -3]]

\* ratios the provider does not report; a frame without indicator columns
MissingPayload ==
    [fundamental |-> [BaseFund EXCEPT !.pe_ratio = None, !.roe = None],
     technical |-> [BaseTech EXCEPT !.RSI = None, !.SMA_20 = None, !.SMA_50 = None,
                                    !.MACD = None, !.MACD_Signal = None]]

\* outside the default ranges (PE above 50, RSI above 70)
ExtremePayload ==
    [fundamental |-> [BaseFund EXCEPT !.pe_ratio = 6000],
     technical |-> [BaseTech EXCEPT !.RSI = 80]]

\* a dividend yield over the band of the score, and a larger company
HighYieldPayload ==
    [fundamental |-> [BaseFund EXCEPT !.dividend_yield = 8, !.market_cap = 9000],
     technical |-> BaseTech]

\* info['marketCap'] present with the value None
NoCapPayload ==
    [fundamental |-> [BaseFund EXCEPT !.market_cap = None], technical |-> BaseTech]

WeakPayload ==
    [fundamental |-> [BaseFund EXCEPT !.sector = "Energy", !.roe = 8,
                                      !.market_cap = 800, !.debt_to_equity = 150],
     technical |-> [BaseTech EXCEPT !.RSI = 65, !.MACD = 1, !.Volume = 100]]

\* 30 bars of history: no SMA_50 yet
ShortPayload ==
    [fundamental |-> BaseFund, technical |-> [BaseTech EXCEPT !.nbars = 30, !.SMA_50 = NaN]]

\* get_fundamental_data failed: it returns {}
FundamentalFailure == [fundamental |-> EmptyBundle, technical |-> BaseTech]

\* get_stock_data failed: it returns an empty frame
PriceFailure == [fundamental |-> BaseFund, technical |-> EmptyFrame]

\* a provider raised: the except clause prints and the lookup goes on to
\* return None without having built a payload
ProviderRaises == [fundamental |-> EmptyBundle, technical |-> EmptyFrame, raises |-> TRUE]

\* a symbol for which the call of a provider never returns
NeverReturns == [fundamental |-> EmptyBundle, technical |-> EmptyFrame, returns |-> FALSE]

\* the answers of the providers in the cache specification
CacheResponses == {BasePayload, ZeroPayload, FundamentalFailure}

\* the answers of the providers in the specification of failing fetches
FailureResponses == {BasePayload, FundamentalFailure, PriceFailure, ProviderRaises}

\* the answers of the providers in the screening specification
ScreenResponses ==
    {BasePayload, ZeroPayload, MissingPayload, NoCapPayload, WeakPayload, PriceFailure}

\* the answers of the providers in the specification of criteria and
\* universes at their edges
EdgeResponses ==
    {BasePayload, ExtremePayload, ShortPayload, HighYieldPayload, PriceFailure}

\* the answers of the providers in the specification of concurrent lookups
ConcurrentResponses == {BasePayload, ZeroPayload}

\* the value None returned in place of a payload
NoData == [symbol |-> "None"]

---------------------------------------------------------------------------
(* StockScreener._get_stock_data_cached *)

cache_key(symbol) == symbol \o "_data"

\* the expiry test with <= in place of <
HasFreshInclusive(c, t, symbol) ==
    /\ cache_key(symbol) \in DOMAIN c
    /\ t - c[cache_key(symbol)].timestamp <= cache_expiry

HasFresh(c, t, symbol) ==
    /\ cache_key(symbol) \in DOMAIN c
    /\ t - c[cache_key(symbol)].timestamp < cache_expiry

\* self.cache[cache_key] = (combined_data, current_time)
CachePut(c, key, entry) ==
    [k \in DOMAIN c \cup {key} |-> IF k = key THEN entry ELSE c[k]]

\* if fundamental_data and not price_data.empty
FetchOk(fundamental_data, price_data) ==
    DOMAIN fundamental_data # {} /\ price_data.nbars # 0

combined_data(symbol, fundamental_data, technical_data) ==
    [symbol |-> symbol, fundamental |-> fundamental_data,
     technical |-> technical_data, current_price |-> technical_data.Close]

\* a lookup that goes to the providers whatever the cache holds
GetStockDataUncached(c, t, symbol, r) ==
    IF FetchOk(r.fundamental, r.technical)
    THEN [cache |-> CachePut(c, cache_key(symbol),
                             [data |-> combined_data(symbol, r.fundamental, r.technical),
                              timestamp |-> t]),
          data |-> combined_data(symbol, r.fundamental, r.technical),
          fetched |-> TRUE]
    ELSE [cache |-> c, data |-> NoData, fetched |-> TRUE]

\* a lookup that stores the outcome of a failed fetch as well
GetStockDataCachingFailure(c, t, symbol, r) ==
    IF HasFresh(c, t, symbol)
    THEN [cache |-> c, data |-> c[cache_key(symbol)].data, fetched |-> FALSE]
    ELSE IF FetchOk(r.fundamental, r.technical)
         THEN [cache |-> CachePut(c, cache_key(symbol),
                                  [data |-> combined_data(symbol, r.fundamental, r.technical),
                                   timestamp |-> t]),
               data |-> combined_data(symbol, r.fundamental, r.technical),
               fetched |-> TRUE]
         ELSE [cache |-> CachePut(c, cache_key(symbol), [data |-> NoData, timestamp |-> t]),
               data |-> NoData, fetched |-> TRUE]

\* result: the cache afterwards, the value returned, whether the providers were called
get_stock_data_cached(c, t, symbol, r) ==
    IF HasFresh(c, t, symbol)
    THEN [cache |-> c, data |-> c[cache_key(symbol)].data, fetched |-> FALSE]
    ELSE IF FetchOk(r.fundamental, r.technical)
         THEN [cache |-> CachePut(c, cache_key(symbol),
                                  [data |-> combined_data(symbol, r.fundamental, r.technical),
                                   timestamp |-> t]),
               data |-> combined_data(symbol, r.fundamental, r.technical),
               fetched |-> TRUE]
         ELSE [cache |-> c, data |-> NoData, fetched |-> TRUE]

NoEntry == [timestamp |-> None]

EntryOf(c, symbol) == IF cache_key(symbol) \in DOMAIN c THEN c[cache_key(symbol)] ELSE NoEntry

---------------------------------------------------------------------------
(* fundamentals.calculate_financial_score *)

valuation_score(f) ==
    (IF Truthy(f.pe_ratio)
     THEN IF 1000 <= f.pe_ratio /\ f.pe_ratio <= 2500 THEN 15
          ELSE IF (500 <= f.pe_ratio /\ f.pe_ratio < 1000)
                  \/ (2500 < f.pe_ratio /\ f.pe_ratio <= 3500) THEN 10
          ELSE IF Lt(f.pe_ratio, 500) \/ Lt(3500, f.pe_ratio) THEN 5
          ELSE 0
     ELSE 0)
    + (IF Truthy(f.price_to_book)
       THEN IF 100 <= f.price_to_book /\ f.price_to_book <= 300 THEN 10
            ELSE IF (50 <= f.price_to_book /\ f.price_to_book < 100)
                    \/ (300 < f.price_to_book /\ f.price_to_book <= 500) THEN 5
            ELSE 0
       ELSE 0)

profitability_score(f) ==
    (IF Truthy(f.roe)
     THEN IF f.roe >= 15 THEN 15 ELSE IF f.roe >= 10 THEN 10
          ELSE IF f.roe >= 5 THEN 5 ELSE 0
     ELSE 0)
    + (IF Truthy(f.profit_margin)
       THEN IF f.profit_margin >= 15 THEN 10 ELSE IF f.profit_margin >= 10 THEN 7
            ELSE IF f.profit_margin >= 5 THEN 5 ELSE 0
       ELSE 0)

financial_health_score(f) ==
    (IF f.debt_to_equity # None
     THEN IF Le(f.debt_to_equity, 50) THEN 15
          ELSE IF Le(f.debt_to_equity, 100) THEN 10
          ELSE IF Le(f.debt_to_equity, 200) THEN 5 ELSE 0
     ELSE 0)
    + (IF Truthy(f.current_ratio)
       THEN IF f.current_ratio >= 150 THEN 10 ELSE IF f.current_ratio >= 100 THEN 7
            ELSE 0
       ELSE 0)

growth_points(g) ==
    IF Truthy(g)
    THEN IF g >= 20 THEN 10 ELSE IF g >= 10 THEN 7 ELSE IF g >= 5 THEN 5 ELSE 0
    ELSE 0

growth_score(f) == growth_points(f.revenue_growth) + growth_points(f.earnings_growth)

\* both branches of the dividend score counted
DividendScoreStacked(f) ==
    IF Truthy(f.dividend_yield) /\ f.dividend_yield > 0
    THEN (IF 2 <= f.dividend_yield /\ f.dividend_yield <= 6 THEN 5 ELSE 0) + 3
    ELSE 0

dividend_score(f) ==
    IF Truthy(f.dividend_yield) /\ f.dividend_yield > 0
    THEN IF 2 <= f.dividend_yield /\ f.dividend_yield <= 6 THEN 5 ELSE 3
    ELSE 0

rating_of(percentage_score) ==
    IF percentage_score >= 80 THEN "Excellent"
    ELSE IF percentage_score >= 70 THEN "Good"
    ELSE IF percentage_score >= 60 THEN "Average"
    ELSE IF percentage_score >= 50 THEN "Below Average"
    ELSE "Poor"

calculate_financial_score(f) ==
    LET score_components ==
            [valuation |-> valuation_score(f),
             profitability |-> profitability_score(f),
             financial_health |-> financial_health_score(f),
             growth |-> growth_score(f),
             dividend |-> dividend_score(f)]
        total_score == score_components.valuation + score_components.profitability
                       + score_components.financial_health + score_components.growth
                       + score_components.dividend
        max_total == 25 + 25 + 25 + 20 + 5
        percentage_score == (total_score * 100) \div max_total
    IN [total_score |-> total_score, max_score |-> max_total,
        percentage |-> percentage_score, rating |-> rating_of(percentage_score),
        component_scores |-> score_components]

---------------------------------------------------------------------------
(* list.sort(key=..., reverse=True): a stable sort, descending by key *)

RECURSIVE InsertDescStrict(_, _, _)
\* an unstable variant: x goes in front of the elements whose key equals its own
InsertDescStrict(sorted, x, key) ==
    IF sorted = <<>> THEN <<x>>
    ELSE IF Head(sorted)[key] > x[key]
         THEN <<Head(sorted)>> \o InsertDescStrict(Tail(sorted), x, key)
         ELSE <<x>> \o sorted

RECURSIVE InsertDesc(_, _, _)
\* x goes behind every element whose key is >= its own
InsertDesc(sorted, x, key) ==
    IF sorted = <<>> THEN <<x>>
    ELSE IF Head(sorted)[key] >= x[key]
         THEN <<Head(sorted)>> \o InsertDesc(Tail(sorted), x, key)
         ELSE <<x>> \o sorted

RECURSIVE SortDescFrom(_, _, _, _)
SortDescFrom(items, i, sorted, key) ==
    IF i > Len(items) THEN sorted
    ELSE SortDescFrom(items, i + 1, InsertDesc(sorted, items[i], key), key)

sort_reverse(items, key) == SortDescFrom(items, 1, <<>>, key)

(* list.sort(key=...): a stable sort, ascending by key *)

RECURSIVE InsertAsc(_, _, _)
InsertAsc(sorted, x, key) ==
    IF sorted = <<>> THEN <<x>>
    ELSE IF Head(sorted)[key] <= x[key]
         THEN <<Head(sorted)>> \o InsertAsc(Tail(sorted), x, key)
         ELSE <<x>> \o sorted

RECURSIVE SortAscFrom(_, _, _, _)
SortAscFrom(items, i, sorted, key) ==
    IF i > Len(items) THEN sorted
    ELSE SortAscFrom(items, i + 1, InsertAsc(sorted, items[i], key), key)

sort_ascending(items, key) == SortAscFrom(items, 1, <<>>, key)

\* results[:n]
Take(results, n) == SubSeq(results, 1, Min2(n, Len(results)))

Abs(x) == IF x < 0 THEN -x ELSE x

---------------------------------------------------------------------------
(* The loop bodies of fundamental_screen and technical_screen: what one     *)
(* symbol's data yields under the merged criteria: a record ("hit"), a      *)
(* continue ("skip") or an exception ("raise")                              *)

Skip == [tag |-> "skip"]

Raise == [tag |-> "raise"]

Hit(rec) == [tag |-> "hit", rec |-> rec]

default_fundamental_criteria ==
    [min_market_cap |-> 0, max_market_cap |-> Inf, min_pe_ratio |-> 0,
     max_pe_ratio |-> 5000, min_roe |-> 0, max_debt_to_equity |-> 200,
     min_profit_margin |-> 0, min_revenue_growth |-> -50,
     dividend_yield |-> FALSE, sectors |-> {}]

fundamental_body(symbol, stock_data, screen_criteria) ==
    LET f == stock_data.fundamental
        financial_score == calculate_financial_score(f)
    IN IF f.market_cap = None THEN Raise   \* TypeError: '<=' between int and NoneType
       ELSE IF ~(screen_criteria.min_market_cap <= f.market_cap
                 /\ f.market_cap <= screen_criteria.max_market_cap) THEN Skip
       ELSE IF Truthy(f.pe_ratio)
               /\ ~(screen_criteria.min_pe_ratio <= f.pe_ratio
                    /\ f.pe_ratio <= screen_criteria.max_pe_ratio) THEN Skip
       ELSE IF Truthy(f.roe) /\ f.roe < screen_criteria.min_roe THEN Skip
       ELSE IF Truthy(f.debt_to_equity)
               /\ f.debt_to_equity > screen_criteria.max_debt_to_equity THEN Skip
       ELSE IF Truthy(f.profit_margin)
               /\ f.profit_margin < screen_criteria.min_profit_margin THEN Skip
       ELSE IF Truthy(f.revenue_growth)
               /\ f.revenue_growth < screen_criteria.min_revenue_growth THEN Skip
       ELSE IF screen_criteria.dividend_yield
               /\ (~Truthy(f.dividend_yield) \/ f.dividend_yield <= 0) THEN Skip
       ELSE IF screen_criteria.sectors # {}
               /\ f.sector \notin screen_criteria.sectors THEN Skip
       ELSE Hit([symbol |-> symbol, sector |-> f.sector,
                 current_price |-> stock_data.current_price,
                 market_cap |-> f.market_cap, pe_ratio |-> f.pe_ratio,
                 roe |-> f.roe, debt_to_equity |-> f.debt_to_equity,
                 profit_margin |-> f.profit_margin,
                 revenue_growth |-> f.revenue_growth,
                 dividend_yield |-> f.dividend_yield,
                 financial_score |-> ScoreScale * financial_score.percentage,
                 financial_rating |-> financial_score.rating])

default_technical_criteria ==
    [rsi_min |-> 30, rsi_max |-> 70, price_above_sma20 |-> FALSE,
     price_above_sma50 |-> FALSE, macd_bullish |-> FALSE,
     volume_spike |-> FALSE, breakout_pattern |-> FALSE, min_volume |-> 0]

\* volume / avg_volume > 1.2, as 5 * volume > 6 * avg_volume
VolumeRatioAbove12(t) ==
    Truthy(t.Volume_avg20) /\ t.Volume_avg20 # NaN /\ 5 * t.Volume > 6 * t.Volume_avg20

MacdAbove(t) == Truthy(t.MACD) /\ Truthy(t.MACD_Signal) /\ Lt(t.MACD_Signal, t.MACD)

technical_points(t) ==
    (IF Truthy(t.RSI)
     THEN IF Le(40, t.RSI) /\ Le(t.RSI, 60) THEN 20
          ELSE IF Le(30, t.RSI) /\ Le(t.RSI, 70) THEN 15 ELSE 0
     ELSE 0)
    + (IF Truthy(t.SMA_20) /\ Lt(t.SMA_20, t.Close) THEN 15 ELSE 0)
    + (IF Truthy(t.SMA_50) /\ Lt(t.SMA_50, t.Close) THEN 15 ELSE 0)
    + (IF MacdAbove(t) THEN 20 ELSE 0)
    + (IF VolumeRatioAbove12(t) THEN 10 ELSE 0)

\* the points of the RSI counted as available whether it is there or not
TotalIndicatorsFixed(t) == 20 + 15 + 15 + 20 + 10

total_indicators(t) == (IF Truthy(t.RSI) THEN 20 ELSE 0) + 15 + 15 + 20 + 10

technical_score_pct(t) ==
    IF total_indicators(t) > 0
    THEN (technical_points(t) * 100 * ScoreScale) \div total_indicators(t)
    ELSE 0

technical_body(symbol, stock_data, screen_criteria) ==
    LET t == stock_data.technical
        current_price == t.Close
    IN IF t.nbars = 0 THEN Skip
       ELSE IF Truthy(t.RSI)
               /\ ~(Le(screen_criteria.rsi_min, t.RSI)
                    /\ Le(t.RSI, screen_criteria.rsi_max)) THEN Skip
       ELSE IF screen_criteria.price_above_sma20 /\ Truthy(t.SMA_20)
               /\ Le(current_price, t.SMA_20) THEN Skip
       ELSE IF screen_criteria.price_above_sma50 /\ Truthy(t.SMA_50)
               /\ Le(current_price, t.SMA_50) THEN Skip
       ELSE IF screen_criteria.macd_bullish /\ Truthy(t.MACD) /\ Truthy(t.MACD_Signal)
               /\ Le(t.MACD, t.MACD_Signal) THEN Skip
       \* volume / avg_volume < 1.5, as 2 * volume < 3 * avg_volume
       ELSE IF screen_criteria.volume_spike /\ Truthy(t.Volume_avg20)
               /\ t.Volume_avg20 # NaN /\ 2 * t.Volume < 3 * t.Volume_avg20 THEN Skip
       ELSE IF t.Volume < screen_criteria.min_volume THEN Skip
       \* technical['High'].rolling(20).max().iloc[-2]: IndexError on a single bar
       ELSE IF screen_criteria.breakout_pattern /\ t.nbars < 2 THEN Raise
       ELSE IF screen_criteria.breakout_pattern /\ ~Lt(t.High_max20_prev, current_price)
            THEN Skip
       ELSE Hit([symbol |-> symbol, current_price |-> current_price, rsi |-> t.RSI,
                 macd_signal |-> IF MacdAbove(t) THEN "Bullish" ELSE "Bearish",
                 breakout_score |-> IF screen_criteria.breakout_pattern THEN 1 ELSE 0,
                 technical_score |-> technical_score_pct(t)])

default_rsi_criteria == [rsi_low |-> 30, rsi_high |-> 70, rsi_condition |-> "oversold"]

\* the loop body of rsi_screen
rsi_body(symbol, stock_data, criteria) ==
    LET t == stock_data.technical
        current_rsi == t.RSI
        match_condition ==
            \/ criteria.rsi_condition = "oversold" /\ Le(current_rsi, criteria.rsi_low)
            \/ criteria.rsi_condition = "overbought" /\ Le(criteria.rsi_high, current_rsi)
            \/ criteria.rsi_condition = "range" /\ Le(criteria.rsi_low, current_rsi)
                                                /\ Le(current_rsi, criteria.rsi_high)
    IN IF t.nbars = 0 \/ t.RSI = None THEN Skip   \* 'RSI' not in technical_data.columns
       ELSE IF match_condition
       THEN Hit([symbol |-> symbol, current_price |-> t.Close, rsi |-> current_rsi,
                 signal |-> criteria.rsi_condition,
                 score |-> ScoreScale * (100 - Abs(current_rsi - 50))])
       ELSE Skip

default_supertrend_criteria == [signal_type |-> "buy"]

\* the loop body of supertrend_screen; the score 100 - distance_pct is held
\* rounded down to the score unit (a supertrend of NaN gives a score of NaN;
\* a supertrend of 0 divides a numpy float by zero: the distance is inf and
\* the score -inf)
supertrend_body(symbol, stock_data, criteria) ==
    LET t == stock_data.technical
        current_price == t.Close
        current_supertrend == t.Supertrend
        current_signal == t.Supertrend_Signal
        match_condition ==
            \/ criteria.signal_type = "buy" /\ current_signal = "Buy"
            \/ criteria.signal_type = "sell" /\ current_signal = "Sell"
    IN IF t.nbars = 0 THEN Skip
       ELSE IF t.nbars < 10 THEN Skip        \* _calculate_supertrend returns an empty frame
       ELSE IF ~match_condition THEN Skip
       ELSE Hit([symbol |-> symbol, current_price |-> current_price,
                 supertrend |-> current_supertrend, signal |-> current_signal,
                 score |-> IF current_supertrend = NaN THEN NaN
                           ELSE IF current_supertrend = 0 THEN -Inf
                           ELSE ScoreScale * 100
                                - (Abs(current_price - current_supertrend) * 100 * ScoreScale)
                                    \div Abs(current_supertrend)])

default_earnings_criteria == [min_growth |-> 10, min_revenue_growth |-> 5, max_pe |-> 2500]

\* fundamental_data.get(key, 0) on the dict of get_fundamental_data, whose
\* ratios are nested under valuation_ratios, profitability_ratios and
\* growth_metrics: none of the four keys exists at the top level
TopLevelGet(f, key, default) ==
    IF key \in {"basic_info", "valuation_ratios", "profitability_ratios",
                "financial_health", "growth_metrics", "dividend_info", "analyst_info"}
    THEN f ELSE default

\* the loop body of quarterly_earnings_screen (the score is held rounded
\* down to the score unit)
earnings_body(symbol, stock_data, criteria) ==
    LET f == stock_data.fundamental
        pe_ratio == TopLevelGet(f, "pe_ratio", 0)
        profit_growth == TopLevelGet(f, "profit_growth", 0)
        revenue_growth == TopLevelGet(f, "revenue_growth", 0)
        roe == TopLevelGet(f, "roe", 0)
        growth == (ScoreScale * (profit_growth + revenue_growth)) \div 2
        efficiency == Min2((ScoreScale * roe * 25) \div 15, ScoreScale * 25)
        valuation == ScoreScale * 25 - (ScoreScale * pe_ratio * 25) \div criteria.max_pe
    IN IF pe_ratio > 0 /\ pe_ratio <= criteria.max_pe
          /\ profit_growth >= criteria.min_growth
          /\ revenue_growth >= criteria.min_revenue_growth
       THEN Hit([symbol |-> symbol, current_price |-> stock_data.current_price,
                 pe_ratio |-> pe_ratio, profit_growth |-> profit_growth,
                 revenue_growth |-> revenue_growth, roe |-> roe,
                 score |-> growth + efficiency + (IF valuation > 0 THEN valuation ELSE 0)])
       ELSE Skip

loop_body(kind, symbol, stock_data, screen_criteria) ==
    IF kind = "fundamental" THEN fundamental_body(symbol, stock_data, screen_criteria)
    ELSE IF kind = "technical" THEN technical_body(symbol, stock_data, screen_criteria)
    ELSE IF kind = "rsi" THEN rsi_body(symbol, stock_data, screen_criteria)
    ELSE IF kind = "supertrend" THEN supertrend_body(symbol, stock_data, screen_criteria)
    ELSE earnings_body(symbol, stock_data, screen_criteria)

\* for symbol in self.stock_universe: ... ; st carries the cache, the list
\* screened_stocks, the symbols fetched and whether an exception left the loop
RECURSIVE ScanLoop(_, _, _, _, _, _)
ScanLoop(kind, screen_criteria, i, st, t, prov) ==
    IF i > Len(stock_universe) THEN st
    ELSE LET symbol == stock_universe[i]
             r == get_stock_data_cached(st.cache, t, symbol, prov[symbol])
             st1 == [st EXCEPT !.cache = r.cache,
                               !.fetched = IF r.fetched THEN Append(@, symbol) ELSE @]
         IN IF r.data = NoData
            THEN ScanLoop(kind, screen_criteria, i + 1, st1, t, prov)
            ELSE LET e == loop_body(kind, symbol, r.data, screen_criteria)
                 IN IF e.tag = "raise" THEN [st1 EXCEPT !.raised = TRUE]
                    ELSE IF e.tag = "skip"
                         THEN ScanLoop(kind, screen_criteria, i + 1, st1, t, prov)
                         ELSE ScanLoop(kind, screen_criteria, i + 1,
                                       [st1 EXCEPT !.screened_stocks = Append(@, e.rec)],
                                       t, prov)

\* a scan that reads self.stock_universe[0] before its loop: IndexError on an
\* empty universe
ScanStartIndexed(c) ==
    [cache |-> c, screened_stocks |-> <<>>, fetched |-> <<>>,
     raised |-> stock_universe = <<>>]

ScanStart(c) == [cache |-> c, screened_stocks |-> <<>>, fetched |-> <<>>, raised |-> FALSE]

\* result: [cache, result, fetched, raised]; except Exception: return []
\* (st is the state the loop leaves, computed once)
Screen(kind, defaults, score_key, criteria, c, t, prov) ==
    CHOOSE out \in
        { [cache |-> st.cache, fetched |-> st.fetched, raised |-> st.raised,
           result |-> IF st.raised THEN <<>>
                      ELSE sort_reverse(st.screened_stocks, score_key)]
          : st \in {ScanLoop(kind, Merge(defaults, criteria), 1, ScanStart(c), t, prov)} }
        : TRUE

fundamental_screen(criteria, c, t, prov) ==
    Screen("fundamental", default_fundamental_criteria, "financial_score", criteria, c, t, prov)

technical_screen(criteria, c, t, prov) ==
    Screen("technical", default_technical_criteria, "technical_score", criteria, c, t, prov)

rsi_screen(criteria, c, t, prov) ==
    LET sc == Merge(default_rsi_criteria, criteria)
    IN CHOOSE out \in
        { [cache |-> st.cache, fetched |-> st.fetched, raised |-> st.raised,
           result |-> IF st.raised THEN <<>>
                      ELSE IF sc.rsi_condition = "oversold"
                      THEN Take(sort_ascending(st.screened_stocks, "rsi"), 20)
                      ELSE IF sc.rsi_condition = "overbought"
                      THEN Take(sort_reverse(st.screened_stocks, "rsi"), 20)
                      ELSE Take(sort_reverse(st.screened_stocks, "score"), 20)]
          : st \in {ScanLoop("rsi", sc, 1, ScanStart(c), t, prov)} }
        : TRUE

supertrend_screen(criteria, c, t, prov) ==
    [Screen("supertrend", default_supertrend_criteria, "score", criteria, c, t, prov)
        EXCEPT !.result = Take(@, 15)]

quarterly_earnings_screen(criteria, c, t, prov) ==
    [Screen("earnings", default_earnings_criteria, "score", criteria, c, t, prov)
        EXCEPT !.result = Take(@, 20)]

---------------------------------------------------------------------------
(* The preset scans *)

momentum_criteria ==
    [price_above_sma20 |-> TRUE, price_above_sma50 |-> TRUE, volume_spike |-> TRUE,
     rsi_min |-> 50, rsi_max |-> 80, macd_bullish |-> TRUE]

value_criteria ==
    [max_pe_ratio |-> 2000, min_roe |-> 12, max_debt_to_equity |-> 100,
     min_profit_margin |-> 5, dividend_yield |-> TRUE]

growth_criteria ==
    [min_revenue_growth |-> 15, min_roe |-> 15, min_profit_margin |-> 10,
     max_pe_ratio |-> 4000]

dividend_criteria ==
    [dividend_yield |-> TRUE, min_roe |-> 10, max_debt_to_equity |-> 150,
     min_profit_margin |-> 5]

quality_criteria ==
    [min_roe |-> 15, min_profit_margin |-> 10, max_debt_to_equity |-> 50,
     min_revenue_growth |-> 5]

sector_criteria(sector) == [sectors |-> {sector}, min_market_cap |-> 1000, min_roe |-> 10]

momentum_screen(c, t, prov) == technical_screen(momentum_criteria, c, t, prov)

value_screen(c, t, prov) == fundamental_screen(value_criteria, c, t, prov)

growth_screen(c, t, prov) == fundamental_screen(growth_criteria, c, t, prov)

dividend_screen(c, t, prov) ==
    [fundamental_screen(dividend_criteria, c, t, prov)
        EXCEPT !.result = sort_reverse(@, "dividend_yield")]

quality_screen(c, t, prov) == fundamental_screen(quality_criteria, c, t, prov)

get_sector_leaders(sector, c, t, prov) ==
    [fundamental_screen(sector_criteria(sector), c, t, prov)
        EXCEPT !.result = Take(sort_reverse(@, "market_cap"), 10)]

Presets == {"momentum", "value", "growth", "dividend", "quality", "sector_leaders"}

preset_screen(preset, c, t, prov) ==
    IF preset = "momentum" THEN momentum_screen(c, t, prov)
    ELSE IF preset = "value" THEN value_screen(c, t, prov)
    ELSE IF preset = "growth" THEN growth_screen(c, t, prov)
    ELSE IF preset = "dividend" THEN dividend_screen(c, t, prov)
    ELSE IF preset = "quality" THEN quality_screen(c, t, prov)
    ELSE get_sector_leaders("Technology", c, t, prov)

---------------------------------------------------------------------------
(* StockScreener.combined_screen and custom_screen *)

\* weights=None
NoWeights == [none |-> TRUE]

default_weights == [fundamental |-> 60, technical |-> 40]

\* technical_lookup.get(symbol, {}): the last record of the symbol, or {}
RECURSIVE LookupFrom(_, _, _)
LookupFrom(results, i, symbol) ==
    IF i = 0 THEN <<>>
    ELSE IF results[i].symbol = symbol THEN results[i]
    ELSE LookupFrom(results, i - 1, symbol)

technical_lookup_get(technical_results, symbol) ==
    LookupFrom(technical_results, Len(technical_results), symbol)

combine_one(fund_result, technical_results, weights) ==
    LET tech_result == technical_lookup_get(technical_results, fund_result.symbol)
        fund_score == Get(fund_result, "financial_score", 0)
        tech_score == Get(tech_result, "technical_score", 0)
        combined_score == fund_score * weights.fundamental + tech_score * weights.technical
    IN Merge(Merge(fund_result, tech_result), [combined_score |-> combined_score])

\* for fund_result in fundamental_results: ... ; combined_results.sort(...)
combine_all(fund, tech, weights) ==
    CHOOSE out \in
        { [cache |-> tech.cache, fetched |-> fund.fetched \o tech.fetched,
           raised |-> fund.raised \/ tech.raised,
           fundamental_results |-> fund.result, technical_results |-> tech.result,
           result |-> sort_reverse(combined_results, "combined_score")]
          : combined_results \in
              { [i \in 1..Len(fund.result) |->
                    combine_one(fund.result[i], tech.result, weights)] } }
        : TRUE

\* technical_results = self.technical_screen(technical_criteria), on the cache
\* the fundamental scan left
combine_after(fund, technical_criteria, weights, t, prov) ==
    CHOOSE out \in
        { combine_all(fund, tech, weights)
          : tech \in {technical_screen(technical_criteria, fund.cache, t, prov)} }
        : TRUE

combined_screen(fundamental_criteria, technical_criteria, weights_arg, c, t, prov) ==
    LET weights == IF weights_arg = NoWeights THEN default_weights ELSE weights_arg
    IN CHOOSE out \in
        { combine_after(fund, technical_criteria, weights, t, prov)
          : fund \in {fundamental_screen(fundamental_criteria, c, t, prov)} }
        : TRUE

fundamental_keys ==
    {"min_market_cap", "max_market_cap", "min_pe_ratio", "max_pe_ratio", "min_roe",
     "max_debt_to_equity", "min_profit_margin", "min_revenue_growth",
     "dividend_yield", "sectors"}

technical_keys ==
    {"rsi_min", "rsi_max", "price_above_sma20", "price_above_sma50", "macd_bullish",
     "volume_spike", "breakout_pattern", "min_volume"}

\* {k: v for k, v in d.items() if k in keys}
Restrict(d, keys) == [k \in DOMAIN d \cap keys |-> d[k]]

custom_screen(user_criteria, c, t, prov) ==
    LET fundamental_criteria == Restrict(user_criteria, fundamental_keys)
        technical_criteria == Restrict(user_criteria, technical_keys)
    IN IF DOMAIN fundamental_criteria # {} /\ DOMAIN technical_criteria # {}
       THEN combined_screen(fundamental_criteria, technical_criteria,
                            Get(user_criteria, "weights", default_weights), c, t, prov)
            @@ [via |-> "combined"]
       ELSE IF DOMAIN fundamental_criteria # {}
       THEN fundamental_screen(fundamental_criteria, c, t, prov) @@ [via |-> "fundamental"]
       ELSE IF DOMAIN technical_criteria # {}
       THEN technical_screen(technical_criteria, c, t, prov) @@ [via |-> "technical"]
       ELSE [fundamental_screen(<<>>, c, t, prov) EXCEPT !.result = Take(@, 20)]
            @@ [via |-> "top20"]

---------------------------------------------------------------------------
(* Inputs of the screens *)

FundamentalCriteriaInputs ==
    { <<>>,
      [min_pe_ratio |-> 500, max_pe_ratio |-> 2000],
      [min_roe |-> 12],
      [dividend_yield |-> TRUE],
      [sectors |-> {"Technology"}, min_market_cap |-> 1000] }

TechnicalCriteriaInputs ==
    { <<>>,
      [rsi_min |-> 40, rsi_max |-> 70],
      [price_above_sma20 |-> TRUE, price_above_sma50 |-> TRUE, macd_bullish |-> TRUE],
      [volume_spike |-> TRUE, breakout_pattern |-> TRUE] }

WeightInputs ==
    { NoWeights,
      [fundamental |-> 60, technical |-> 40],
      [fundamental |-> 75, technical |-> 25],
      [fundamental |-> 300, technical |-> 100],
      [fundamental |-> 0, technical |-> 0] }

CombinedInputs ==
    { << <<>>, [price_above_sma20 |-> TRUE, price_above_sma50 |-> TRUE,
               macd_bullish |-> TRUE] >>,
      << [min_pe_ratio |-> 500, max_pe_ratio |-> 2000], <<>> >> }

RsiCriteriaInputs ==
    { <<>>,
      [rsi_condition |-> "overbought", rsi_high |-> 60],
      [rsi_condition |-> "range", rsi_low |-> 0, rsi_high |-> 100] }

SupertrendCriteriaInputs == {<<>>, [signal_type |-> "sell"]}

\* criteria at their edges: none, a range with min > max, a sector no symbol has
EdgeFundamentalInputs ==
    { <<>>,
      [min_pe_ratio |-> 3000, max_pe_ratio |-> 1000],
      [min_market_cap |-> 9000, max_market_cap |-> 1000],
      [sectors |-> {"Unobtainium"}] }

EdgeTechnicalInputs ==
    { <<>>,
      [rsi_min |-> 70, rsi_max |-> 30],
      [price_above_sma20 |-> TRUE],
      [price_above_sma50 |-> TRUE] }

\* values of self.stock_universe
UniverseInputs == {<<>>, INDIAN_STOCKS}

EarningsCriteriaInputs == {<<>>, [min_growth |-> 0, min_revenue_growth |-> 0]}

CustomInputs ==
    { <<>>,
      [min_roe |-> 12],
      [rsi_min |-> 40, rsi_max |-> 70],
      [max_pe_ratio |-> 2000, macd_bullish |-> TRUE],
      [max_pe_ratio |-> 2000, macd_bullish |-> TRUE,
       weights |-> [fundamental |-> 0, technical |-> 0]] }

---------------------------------------------------------------------------
(* State *)

Idle == [pc |-> "idle"]

\* provider: what the two providers (get_fundamental_data, get_stock_data)
\* currently answer for each symbol
\* stock_universe: the attribute self.stock_universe; df: the frame a caller
\* hands to the indicator functions of app.py
\* TradingScheduler.__init__, a NewsAggregator without a cache file at time
\* 0, and a Portfolio without a portfolio file
ServicesConstructed ==
    /\ scheduler = [running |-> FALSE, scheduler_thread |-> None, loops |-> <<>>]
    /\ news = [exists |-> FALSE, timestamp |-> 0, articles |-> <<>>, clock |-> 0]
    /\ holdings = <<>>

ConstructedOver(universe) ==
    /\ ServicesConstructed
    /\ cache = <<>>
    /\ now = 0
    /\ last = [op |-> "init"]
    /\ threads = [t \in 1..NumCallers |-> Idle]
    /\ stock_universe = universe
    /\ df = <<>>

Constructed == ConstructedOver(INDIAN_STOCKS)

Init == Constructed /\ provider \in [Symbols -> ScreenResponses]

\* the wall clock (datetime.now()) advances
Tick ==
    /\ now < MaxTime
    /\ now' = now + 1
    /\ UNCHANGED <<scheduler, news, holdings, stock_universe, df, cache, provider, last, threads>>

\* the provider's data for one symbol changes
ProviderChangeIn(answers) ==
    \E symbol \in Symbols, r \in answers :
        /\ provider[symbol] # r
        /\ provider' = [provider EXCEPT ![symbol] = r]
        /\ UNCHANGED <<scheduler, news, holdings, stock_universe, df, cache, now, last, threads>>

ProviderChange == ProviderChangeIn(CacheResponses)

\* one sequential call of _get_stock_data_cached
Lookup(symbol) ==
    LET r == get_stock_data_cached(cache, now, symbol, provider[symbol])
    IN /\ cache' = r.cache
       /\ last' = [op |-> "lookup", symbol |-> symbol,
                   prior |-> EntryOf(cache, symbol).timestamp,
                   data |-> r.data, fetched |-> r.fetched]
       /\ UNCHANGED <<scheduler, news, holdings, stock_universe, df, now, provider, threads>>

LookupAny == \E symbol \in Symbols : Lookup(symbol)

\* a call of fundamental_screen(criteria)
FundamentalScreenOn(inputs) ==
    \E criteria \in inputs :
        \E r \in {fundamental_screen(criteria, cache, now, provider)} :
           /\ cache' = r.cache
           /\ last' = [op |-> "fundamental", criteria |-> criteria, time |-> now,
                       result |-> r.result, fetched |-> r.fetched, raised |-> r.raised]
           /\ UNCHANGED <<scheduler, news, holdings, stock_universe, df, now, provider, threads>>

FundamentalScreen == FundamentalScreenOn(FundamentalCriteriaInputs)

\* a call of technical_screen(criteria)
TechnicalScreenOn(inputs) ==
    \E criteria \in inputs :
        \E r \in {technical_screen(criteria, cache, now, provider)} :
           /\ cache' = r.cache
           /\ last' = [op |-> "technical", criteria |-> criteria, time |-> now,
                       result |-> r.result, fetched |-> r.fetched, raised |-> r.raised]
           /\ UNCHANGED <<scheduler, news, holdings, stock_universe, df, now, provider, threads>>

TechnicalScreen == TechnicalScreenOn(TechnicalCriteriaInputs)

\* a call of combined_screen(fundamental_criteria, technical_criteria, weights)
CombinedScreen ==
    \E fctc \in CombinedInputs, weights \in WeightInputs :
        \E r \in {combined_screen(fctc[1], fctc[2], weights, cache, now, provider)} :
           /\ cache' = r.cache
           /\ last' = [op |-> "combined", fundamental_criteria |-> fctc[1],
                       technical_criteria |-> fctc[2], weights |-> weights, time |-> now,
                       fundamental_results |-> r.fundamental_results,
                       technical_results |-> r.technical_results,
                       result |-> r.result, fetched |-> r.fetched, raised |-> r.raised]
           /\ UNCHANGED <<scheduler, news, holdings, stock_universe, df, now, provider, threads>>

\* a call of custom_screen(user_criteria)
CustomScreen ==
    \E user_criteria \in CustomInputs :
        \E r \in {custom_screen(user_criteria, cache, now, provider)} :
           /\ cache' = r.cache
           /\ last' = [op |-> "custom", criteria |-> user_criteria, time |-> now,
                       via |-> r.via, result |-> r.result, fetched |-> r.fetched,
                       raised |-> r.raised]
           /\ UNCHANGED <<scheduler, news, holdings, stock_universe, df, now, provider, threads>>

\* a call of rsi_screen(criteria)
RsiScreen ==
    \E criteria \in RsiCriteriaInputs :
        \E r \in {rsi_screen(criteria, cache, now, provider)} :
           /\ cache' = r.cache
           /\ last' = [op |-> "rsi", criteria |-> criteria, time |-> now,
                       result |-> r.result, fetched |-> r.fetched, raised |-> r.raised]
           /\ UNCHANGED <<scheduler, news, holdings, stock_universe, df, now, provider, threads>>

\* a call of supertrend_screen(criteria)
SupertrendScreen ==
    \E criteria \in SupertrendCriteriaInputs :
        \E r \in {supertrend_screen(criteria, cache, now, provider)} :
           /\ cache' = r.cache
           /\ last' = [op |-> "supertrend", criteria |-> criteria, time |-> now,
                       result |-> r.result, fetched |-> r.fetched, raised |-> r.raised]
           /\ UNCHANGED <<scheduler, news, holdings, stock_universe, df, now, provider, threads>>

\* a call of quarterly_earnings_screen(criteria)
QuarterlyEarningsScreen ==
    \E criteria \in EarningsCriteriaInputs :
        \E r \in {quarterly_earnings_screen(criteria, cache, now, provider)} :
           /\ cache' = r.cache
           /\ last' = [op |-> "earnings", criteria |-> criteria, time |-> now,
                       result |-> r.result, fetched |-> r.fetched, raised |-> r.raised]
           /\ UNCHANGED <<scheduler, news, holdings, stock_universe, df, now, provider, threads>>

\* a call of one of momentum_screen, value_screen, growth_screen,
\* dividend_screen, quality_screen, get_sector_leaders
PresetScreen ==
    \E preset \in Presets :
        \E r \in {preset_screen(preset, cache, now, provider)} :
           /\ cache' = r.cache
           /\ last' = [op |-> "preset", criteria |-> preset, time |-> now,
                       result |-> r.result, fetched |-> r.fetched, raised |-> r.raised]
           /\ UNCHANGED <<scheduler, news, holdings, stock_universe, df, now, provider, threads>>

Next ==
    \/ FundamentalScreen
    \/ TechnicalScreen
    \/ CombinedScreen
    \/ CustomScreen
    \/ RsiScreen
    \/ SupertrendScreen
    \/ QuarterlyEarningsScreen
    \/ PresetScreen

Spec == Init /\ [][Next]_vars

\* scans with criteria at their edges, over the universe or over none
InitEdge ==
    \E universe \in UniverseInputs :
        ConstructedOver(universe) /\ provider \in [Symbols -> EdgeResponses]

NextEdge ==
    \/ FundamentalScreenOn(EdgeFundamentalInputs)
    \/ TechnicalScreenOn(EdgeTechnicalInputs)
    \/ CombinedScreen
    \/ CustomScreen
    \/ RsiScreen
    \/ SupertrendScreen
    \/ QuarterlyEarningsScreen
    \/ PresetScreen

SpecEdge == InitEdge /\ [][NextEdge]_vars

InitCache == Constructed /\ provider \in [Symbols -> CacheResponses]

NextCache == Tick \/ ProviderChange \/ LookupAny

SpecCache == InitCache /\ [][NextCache]_vars

\* the same lookups over providers that fail in each of the three ways
ProviderChangeFailing == ProviderChangeIn(FailureResponses)

InitFailing == Constructed /\ provider \in [Symbols -> FailureResponses]

NextFailing == Tick \/ ProviderChangeFailing \/ LookupAny

SpecFailing == InitFailing /\ [][NextFailing]_vars

---------------------------------------------------------------------------
(* _get_stock_data_cached called from several threads at once: the method  *)
(* holds no lock, so a caller can be preempted at each provider call       *)

InFlightPcs == {"fetch_fundamental", "fetch_price", "store"}

\* lines 30-37: the cache check
Begin(t) ==
    /\ threads[t].pc = "idle"
    /\ \E symbol \in Symbols :
          threads' = [threads EXCEPT ![t] =
              IF HasFresh(cache, now, symbol)
              THEN [pc |-> "done", symbol |-> symbol, fetched |-> FALSE,
                    result |-> cache[cache_key(symbol)].data]
              ELSE [pc |-> "fetch_fundamental", symbol |-> symbol, current_time |-> now]]
    /\ UNCHANGED <<scheduler, news, holdings, stock_universe, df, cache, now, provider, last>>

\* line 41: fundamental_data = get_fundamental_data(symbol)
FetchFundamental(t) ==
    /\ threads[t].pc = "fetch_fundamental"
    /\ provider[threads[t].symbol] # NeverReturns
    /\ threads' = [threads EXCEPT ![t] =
          [pc |-> "fetch_price", symbol |-> threads[t].symbol,
           current_time |-> threads[t].current_time,
           fundamental_data |-> provider[threads[t].symbol].fundamental]]
    /\ UNCHANGED <<scheduler, news, holdings, stock_universe, df, cache, now, provider, last>>

\* line 42: price_data = get_stock_data(symbol, period="3mo")
FetchPrice(t) ==
    /\ threads[t].pc = "fetch_price"
    /\ provider[threads[t].symbol] # NeverReturns
    /\ threads' = [threads EXCEPT ![t] =
          [pc |-> "store", symbol |-> threads[t].symbol,
           current_time |-> threads[t].current_time,
           fundamental_data |-> threads[t].fundamental_data,
           price_data |-> provider[threads[t].symbol].technical]]
    /\ UNCHANGED <<scheduler, news, holdings, stock_universe, df, cache, now, provider, last>>

\* lines 44-61: store and return
Store(t) ==
    /\ threads[t].pc = "store"
    /\ LET th == threads[t]
           ok == FetchOk(th.fundamental_data, th.price_data)
           data == combined_data(th.symbol, th.fundamental_data, th.price_data)
       IN /\ cache' = IF ok
                      THEN CachePut(cache, cache_key(th.symbol),
                                    [data |-> data, timestamp |-> th.current_time])
                      ELSE cache
          /\ threads' = [threads EXCEPT ![t] =
                [pc |-> "done", symbol |-> th.symbol, fetched |-> TRUE,
                 result |-> IF ok THEN data ELSE NoData]]
    /\ UNCHANGED <<scheduler, news, holdings, stock_universe, df, now, provider, last>>

\* the caller takes the result and may call again
Return(t) ==
    /\ threads[t].pc = "done"
    /\ threads' = [threads EXCEPT ![t] = Idle]
    /\ UNCHANGED <<scheduler, news, holdings, stock_universe, df, cache, now, provider, last>>

ProviderChangeConcurrent == ProviderChangeIn(ConcurrentResponses)

InitConcurrent == Constructed /\ provider \in [Symbols -> ConcurrentResponses]

NextConcurrent ==
    \/ \E t \in 1..NumCallers : Begin(t)
    \/ \E t \in 1..NumCallers : FetchFundamental(t)
    \/ \E t \in 1..NumCallers : FetchPrice(t)
    \/ \E t \in 1..NumCallers : Store(t)
    \/ \E t \in 1..NumCallers : Return(t)
    \/ ProviderChangeConcurrent

SpecConcurrent == InitConcurrent /\ [][NextConcurrent]_vars

\* lookups while the providers of some symbols never return; a caller that
\* can take a step of its lookup takes it
InitStalled == Constructed /\ provider \in [Symbols -> {BasePayload, NeverReturns}]

NextStalled ==
    \/ \E t \in 1..NumCallers : Begin(t)
    \/ \E t \in 1..NumCallers : FetchFundamental(t)
    \/ \E t \in 1..NumCallers : FetchPrice(t)
    \/ \E t \in 1..NumCallers : Store(t)
    \/ \E t \in 1..NumCallers : Return(t)

SpecStalled ==
    /\ InitStalled
    /\ [][NextStalled]_vars
    /\ \A t \in 1..NumCallers :
          WF_vars(FetchFundamental(t) \/ FetchPrice(t) \/ Store(t) \/ Return(t))

---------------------------------------------------------------------------
(* Properties *)

IsScan ==
    last.op \in {"fundamental", "technical", "combined", "custom", "rsi", "supertrend",
                 "earnings", "preset"}

ResultSymbols == {last.result[i].symbol : i \in 1..Len(last.result)}

SymbolsOf(results) == {results[i].symbol : i \in 1..Len(results)}

\* the position of a symbol in a list of records (0 when absent)
PositionIn(results, symbol) ==
    IF symbol \in SymbolsOf(results)
    THEN CHOOSE i \in 1..Len(results) : results[i].symbol = symbol
    ELSE 0

UniverseIndex(symbol) == CHOOSE i \in 1..Len(stock_universe) : stock_universe[i] = symbol

\* the contract of one lookup of symbol, between the state before and after it
LookupContract(symbol) ==
    LET key == cache_key(symbol)
        fresh == key \in DOMAIN cache /\ now - cache[key].timestamp < cache_expiry
        answer == provider[symbol]
        success == DOMAIN answer.fundamental # {} /\ answer.technical.nbars # 0
    IN /\ fresh => /\ last'.fetched = FALSE
                   /\ last'.data = cache[key].data
                   /\ cache' = cache
       /\ ~fresh => /\ last'.fetched = TRUE
                    /\ success => /\ key \in DOMAIN cache'
                                  /\ cache'[key].timestamp = now
                                  /\ cache'[key].data.fundamental = answer.fundamental
                                  /\ cache'[key].data.technical = answer.technical
                                  /\ last'.data = cache'[key].data
                    /\ ~success => last'.data = NoData
       /\ last'.data # NoData => /\ key \in DOMAIN cache'
                                 /\ last'.data = cache'[key].data
                                 /\ now - cache'[key].timestamp < cache_expiry

\* C1: a lookup returns the stored payload without calling the providers
\* exactly when an entry exists whose age is below the TTL; otherwise the
\* providers are called and, on success, the entry is replaced by the new
\* payload with the new timestamp; a payload of age >= TTL is never returned.
C1_CachedLookup == [][\A symbol \in Symbols : Lookup(symbol) => LookupContract(symbol)]_vars

\* an expired entry was replaced by a fresh fetch
C1_Witness ==
    /\ last.op = "lookup"
    /\ last.prior # None
    /\ now - last.prior >= cache_expiry
    /\ last.fetched
    /\ last.data # NoData
    /\ cache[cache_key(last.symbol)].timestamp = now

InFlight(symbol) ==
    {t \in 1..NumCallers : threads[t].pc \in InFlightPcs /\ threads[t].symbol = symbol}

\* C2: under any interleaving of concurrent lookups of one symbol at most one
\* provider fetch for that symbol is in flight at any time.
C2_SingleFlight == \A symbol \in Symbols : Cardinality(InFlight(symbol)) <= 1

\* C3: every record returned by fundamental_screen or technical_screen has
\* each present metric within the thresholds of the merged criteria, also
\* when the metric is exactly 0.
C3_AllPredicatesHold ==
    /\ last.op = "fundamental" =>
          LET sc == Merge(default_fundamental_criteria, last.criteria)
          IN \A i \in 1..Len(last.result) :
                LET rec == last.result[i]
                IN /\ sc.min_market_cap <= rec.market_cap /\ rec.market_cap <= sc.max_market_cap
                   /\ rec.pe_ratio # None =>
                          sc.min_pe_ratio <= rec.pe_ratio /\ rec.pe_ratio <= sc.max_pe_ratio
                   /\ rec.roe # None => rec.roe >= sc.min_roe
                   /\ rec.debt_to_equity # None => rec.debt_to_equity <= sc.max_debt_to_equity
                   /\ rec.profit_margin # None => rec.profit_margin >= sc.min_profit_margin
                   /\ rec.revenue_growth # None => rec.revenue_growth >= sc.min_revenue_growth
    /\ last.op = "technical" =>
          LET sc == Merge(default_technical_criteria, last.criteria)
          IN \A i \in 1..Len(last.result) :
                LET rec == last.result[i]
                    t == cache[cache_key(rec.symbol)].data.technical
                IN /\ rec.rsi \notin {None, NaN} => sc.rsi_min <= rec.rsi /\ rec.rsi <= sc.rsi_max
                   /\ (sc.price_above_sma20 /\ t.SMA_20 \notin {None, NaN}) => t.Close > t.SMA_20
                   /\ (sc.price_above_sma50 /\ t.SMA_50 \notin {None, NaN}) => t.Close > t.SMA_50
                   /\ (sc.macd_bullish /\ t.MACD # None /\ t.MACD_Signal # None)
                          => t.MACD > t.MACD_Signal

\* C4: a symbol that lacks a field (None) needed by a predicate the caller
\* enabled is excluded from the result.
C4_FailsClosed ==
    /\ last.op = "fundamental" =>
          \A i \in 1..Len(last.result) :
             LET rec == last.result[i]
             IN /\ ({"min_pe_ratio", "max_pe_ratio"} \cap DOMAIN last.criteria # {})
                      => rec.pe_ratio # None
                /\ "min_roe" \in DOMAIN last.criteria => rec.roe # None
    /\ last.op = "technical" =>
          \A i \in 1..Len(last.result) :
             LET rec == last.result[i]
                 t == cache[cache_key(rec.symbol)].data.technical
                 sc == Merge(default_technical_criteria, last.criteria)
             IN /\ ({"rsi_min", "rsi_max"} \cap DOMAIN last.criteria # {}) => rec.rsi # None
                /\ sc.price_above_sma20 => t.SMA_20 # None
                /\ sc.price_above_sma50 => t.SMA_50 # None
                /\ sc.macd_bullish => (t.MACD # None /\ t.MACD_Signal # None)

\* C5: combined_screen is an inner join: every symbol of its result is in the
\* result of the fundamental set and in the result of the technical set.
C5_InnerJoin ==
    last.op = "combined" =>
        \A i \in 1..Len(last.result) :
            /\ last.result[i].symbol \in SymbolsOf(last.fundamental_results)
            /\ last.result[i].symbol \in SymbolsOf(last.technical_results)

\* C6: for supplied weights with w_f + w_t > 0 the combined score is
\* financial_score * w_f/(w_f+w_t) + technical_score * w_t/(w_f+w_t)
\* (both sides multiplied by w_f + w_t; scores carry the unit of the weights).
C6_Renormalized ==
    (last.op = "combined" /\ last.weights # NoWeights
       /\ last.weights.fundamental + last.weights.technical > 0) =>
        \A i \in 1..Len(last.result) :
            LET rec == last.result[i]
                w == last.weights
            IN rec.combined_score * (w.fundamental + w.technical)
                 = 100 * (rec.financial_score * w.fundamental
                          + Get(rec, "technical_score", 0) * w.technical)

ZeroWeights == [fundamental |-> 0, technical |-> 0]

\* C7: with both supplied weights zero, combined_screen scores with the
\* default weights 0.6 and 0.4.
C7_ZeroWeightsDefault ==
    /\ (last.op = "combined" /\ last.weights = ZeroWeights) =>
          \A i \in 1..Len(last.result) :
              LET rec == last.result[i]
              IN rec.combined_score
                   = rec.financial_score * 60 + Get(rec, "technical_score", 0) * 40
    /\ (last.op = "custom" /\ last.via = "combined"
          /\ Get(last.criteria, "weights", default_weights) = ZeroWeights) =>
          \A i \in 1..Len(last.result) :
              LET rec == last.result[i]
              IN rec.combined_score
                   = rec.financial_score * 60 + Get(rec, "technical_score", 0) * 40

\* the key a screen sorts by
ScoreKey ==
    IF last.op = "fundamental" THEN "financial_score"
    ELSE IF last.op = "technical" THEN "technical_score"
    ELSE "combined_score"

NonIncreasing ==
    \A i, j \in 1..Len(last.result) :
        i < j => last.result[i][ScoreKey] >= last.result[j][ScoreKey]

\* the symbols of the model in ascending lexical order
LexicalOrder == <<"HDFCBANK", "INFY", "RELIANCE", "TCS">>

LexicalRank(symbol) == CHOOSE i \in 1..Len(LexicalOrder) : LexicalOrder[i] = symbol

PositionBeforeSort(symbol) ==
    IF last.op = "combined" THEN PositionIn(last.fundamental_results, symbol)
    ELSE UniverseIndex(symbol)

C9_SymbolOnce ==
    IsScan =>
        \A i, j \in 1..Len(last.result) :
            i # j => last.result[i].symbol # last.result[j].symbol

\* a combined scan that returned every symbol of the universe
C9_Witness ==
    /\ last.op = "combined"
    /\ Len(last.result) = Len(stock_universe)

\* what the provider's data of a symbol yields under fundamental_screen
FundamentalOutcome(symbol, criteria) ==
    IF FetchOk(provider[symbol].fundamental, provider[symbol].technical)
    THEN fundamental_body(symbol,
                          combined_data(symbol, provider[symbol].fundamental,
                                        provider[symbol].technical),
                          Merge(default_fundamental_criteria, criteria)).tag
    ELSE "none"

\* C10: a failure for one symbol removes only that symbol: every symbol of
\* the universe that satisfies the criteria is returned.
C10_FailureIsLocal ==
    last.op = "fundamental" =>
        \A symbol \in Symbols :
            FundamentalOutcome(symbol, last.criteria) = "hit" => symbol \in ResultSymbols

---------------------------------------------------------------------------
(* The two scores over the values a provider can report: ratios present,   *)
(* absent (None), zero, negative or NaN, and indicator columns with and    *)
(* without a value.                                                        *)

FundamentalBundles ==
    [market_cap : {5000}, sector : {"Technology"},
     pe_ratio : {None, NaN, 0, -500, 1500},
     price_to_book : {None, 200, 600},
     roe : {None, -5, 20},
     profit_margin : {0, 12},
     debt_to_equity : {None, NaN, 0},
     current_ratio : {None, 160},
     revenue_growth : {-5, 25},
     earnings_growth : {0, 12},
     dividend_yield : {None, -1, 3, 8}]

TechnicalRows ==
    { [BaseTech EXCEPT !.RSI = r, !.SMA_20 = s20, !.SMA_50 = s50, !.MACD = macd,
                       !.Volume = v, !.Volume_avg20 = avg] :
        r \in {None, NaN, 0, 35, 50, 65}, s20 \in {None, NaN, 95, 105},
        s50 \in {None, 90, 110}, macd \in {None, 3, -3}, v \in {100, 200},
        avg \in {NaN, 0, 100} }

ScoreResponses ==
    { [fundamental |-> f, technical |-> BaseTech] : f \in FundamentalBundles }
    \cup { [fundamental |-> BaseFund, technical |-> t] : t \in TechnicalRows }

\* one call of calculate_financial_score on the bundle of a symbol
CalculateFinancialScore ==
    /\ \E symbol \in Symbols :
          last' = [op |-> "calculate_financial_score", symbol |-> symbol,
                   result |-> calculate_financial_score(provider[symbol].fundamental)]
    /\ UNCHANGED <<scheduler, news, holdings, stock_universe, df, cache, now,
                   provider, threads>>

\* every symbol of the universe has the same data
InitScore ==
    /\ Constructed
    /\ \E r \in ScoreResponses : provider = [symbol \in Symbols |-> r]

NextScore ==
    \/ CalculateFinancialScore
    \/ TechnicalScreen

SpecScore == InitScore /\ [][NextScore]_vars

---------------------------------------------------------------------------
(* Criteria and universes at their edges *)

\* the sectors of the data
KnownSectors == {"Technology", "Energy"}

\* criteria that contradict themselves or name a sector that does not exist
InvalidCriteria ==
    \/ /\ last.op = "fundamental"
       /\ LET sc == Merge(default_fundamental_criteria, last.criteria)
          IN \/ sc.min_pe_ratio > sc.max_pe_ratio
             \/ sc.min_market_cap > sc.max_market_cap
             \/ ~(sc.sectors \subseteq KnownSectors)
    \/ /\ last.op = "technical"
       /\ LET sc == Merge(default_technical_criteria, last.criteria)
          IN sc.rsi_min > sc.rsi_max

\* C11: a scan with structurally invalid criteria processes no symbol: it
\* fetches nothing, leaves the cache alone and returns no record.
C11_InvalidRejected ==
    InvalidCriteria => /\ last.fetched = <<>>
                       /\ last.result = <<>>
                       /\ cache = <<>>

\* what the loop body of a scan yields for the data the cache holds of a symbol
Outcome(kind, defaults, symbol) ==
    IF cache_key(symbol) \in DOMAIN cache
    THEN loop_body(kind, symbol, cache[cache_key(symbol)].data,
                   Merge(defaults, last.criteria)).tag
    ELSE "none"

\* the symbols of the universe
UniverseSymbols == {stock_universe[i] : i \in 1..Len(stock_universe)}

\* C12: fundamental_screen({}) and technical_screen({}) return every symbol
\* of the universe whose data could be fetched.
C12_DefaultsAreNoOps ==
    (last.op \in {"fundamental", "technical"} /\ last.criteria = <<>>) =>
        \A symbol \in UniverseSymbols :
            cache_key(symbol) \in DOMAIN cache => symbol \in ResultSymbols

\* C13: technical_screen returns no symbol whose history is shorter than the
\* lookback of an SMA filter that is on (50 bars, 20 bars).
C13_ShortHistorySkipped ==
    last.op = "technical" =>
        LET sc == Merge(default_technical_criteria, last.criteria)
        IN \A i \in 1..Len(last.result) :
              LET t == cache[cache_key(last.result[i].symbol)].data.technical
              IN /\ sc.price_above_sma50 => t.nbars >= 50
                 /\ sc.price_above_sma20 => t.nbars >= 20

\* C14: over an empty universe every scan returns the empty list without an
\* exception and without a fetch; a fundamental or technical scan that no
\* symbol of the universe matches returns the empty list.
C14_EmptyUniverse ==
    /\ (IsScan /\ stock_universe = <<>>) =>
          /\ last.result = <<>>
          /\ ~last.raised
          /\ last.fetched = <<>>
          /\ cache = <<>>
    /\ (last.op = "fundamental"
          /\ \A symbol \in UniverseSymbols :
                Outcome("fundamental", default_fundamental_criteria, symbol) # "hit")
          => last.result = <<>>
    /\ (last.op = "technical"
          /\ \A symbol \in UniverseSymbols :
                Outcome("technical", default_technical_criteria, symbol) # "hit")
          => last.result = <<>>

\* a combined scan ran over the empty universe
C14_Witness ==
    /\ stock_universe = <<>>
    /\ last.op = "combined"
    /\ last.result = <<>>

---------------------------------------------------------------------------
(* The indicators of app.py over a frame of bars.  Prices and volumes are   *)
(* whole numbers.  A band of supertrend is kept in units of 1/(2*period),   *)
(* so that hl2 and the rolling mean of the range stay whole.  Bar i of the  *)
(* source is element i + 1 of a frame.                                      *)

MaxBars == 4

\* the rows a frame is made of, each with Low <= Close <= High
FrameBars ==
    { [High |-> 1, Low |-> 1, Close |-> 1, Volume |-> 1],
      [High |-> 2, Low |-> 2, Close |-> 2, Volume |-> 2],
      [High |-> 3, Low |-> 3, Close |-> 3, Volume |-> 1],
      [High |-> 4, Low |-> 4, Close |-> 4, Volume |-> 2],
      [High |-> 3, Low |-> 1, Close |-> 2, Volume |-> 3] }

Frames == UNION { [1..n -> FrameBars] : n \in 0..MaxBars }

\* the lookbacks the indicators are called with
Periods == {1, 2, 3}

Multipliers == {1, 3}

SetMax(S) == CHOOSE x \in S : \A y \in S : y <= x

SetMin(S) == CHOOSE x \in S : \A y \in S : x <= y

RECURSIVE SumSeq(_, _, _)
\* series[lo] + ... + series[hi]
SumSeq(series, lo, hi) ==
    IF lo > hi THEN 0 ELSE series[hi] + SumSeq(series, lo, hi - 1)

\* series.rolling(window).sum() at row i: NaN until the window holds
\* `window` numbers
rolling_sum(series, window, i) ==
    IF i < window \/ \E k \in (i - window + 1)..i : series[k] = NaN
    THEN NaN
    ELSE SumSeq(series, i - window + 1, i)

\* df['High'].rolling(period).max() - df['Low'].rolling(period).min()
high_low_range(data, period) ==
    [i \in 1..Len(data) |->
        IF i < period THEN NaN
        ELSE SetMax({data[k].High : k \in (i - period + 1)..i})
             - SetMin({data[k].Low : k \in (i - period + 1)..i})]

\* upper_band = hl2 + multiplier * atr and lower_band = hl2 - multiplier * atr
\* of every row, with atr the rolling mean of the range
bands(data, range, period, multiplier) ==
    [i \in 1..Len(data) |->
        LET atr == rolling_sum(range, period, i)
            hl2 == period * (data[i].High + data[i].Low)
        IN IF atr = NaN
           THEN [upper |-> NaN, lower |-> NaN]
           ELSE [upper |-> hl2 + 2 * multiplier * atr,
                 lower |-> hl2 - 2 * multiplier * atr]]

\* a trend that never turns up again
InUptrendLatching(close, previous, in_uptrend) ==
    IF Lt(close, previous.lower) THEN FALSE ELSE in_uptrend

\* in_uptrend after a row with this close, given the bands of the row before
in_uptrend_after(close, previous, in_uptrend) ==
    IF Lt(previous.upper, close) THEN TRUE
    ELSE IF Lt(close, previous.lower) THEN FALSE
    ELSE in_uptrend

\* rows without bands get direction 0
AppendRowWarmup(out, band, in_uptrend) ==
    [supertrend_values |->
        Append(out.supertrend_values,
               IF in_uptrend THEN band.lower ELSE band.upper),
     trend_direction |->
        Append(out.trend_direction,
               IF band.upper = NaN THEN 0
               ELSE IF in_uptrend THEN 1 ELSE -1)]

\* the two appends of a row after the first
append_row(out, band, in_uptrend) ==
    [supertrend_values |->
        Append(out.supertrend_values,
               IF in_uptrend THEN band.lower ELSE band.upper),
     trend_direction |->
        Append(out.trend_direction, IF in_uptrend THEN 1 ELSE -1)]

RECURSIVE supertrend_loop(_, _, _, _, _, _)
\* for i in range(len(df))
supertrend_loop(data, band, period, i, in_uptrend, out) ==
    IF i > Len(data) THEN out
    ELSE IF i = 1
    THEN supertrend_loop(data, band, period, 2, in_uptrend,
            [supertrend_values |->
                <<period * (data[1].High + data[1].Low)>>,
             trend_direction |-> <<1>>])
    ELSE \* bind the flag once
         CHOOSE result \in
            { supertrend_loop(data, band, period, i + 1, up,
                              append_row(out, band[i], up)) :
              up \in { in_uptrend_after(2 * period * data[i].Close,
                                        band[i - 1], in_uptrend) } } : TRUE

supertrend(data, period, multiplier) ==
    CHOOSE result \in
        { supertrend_loop(data, band, period, 1, TRUE,
                          [supertrend_values |-> <<>>,
                           trend_direction |-> <<>>]) :
          band \in { bands(data, high_low_range(data, period),
                            period, multiplier) } } : TRUE

\* one call of supertrend over the frame
Supertrend ==
    /\ \E period \in Periods, multiplier \in Multipliers :
          last' = [op |-> "app.supertrend", period |-> period,
                   multiplier |-> multiplier]
                  @@ supertrend(df, period, multiplier)
    /\ UNCHANGED <<scheduler, news, holdings, stock_universe, df, cache, now, provider, threads>>

\* a column of the frame
column(data, name) == [i \in 1..Len(data) |-> data[i][name]]

\* an rsi that is undefined whenever the average loss is zero
RsiUndefinedWithoutLoss(close, window) ==
    LET delta == [i \in 1..Len(close) |->
                    IF i = 1 THEN NaN ELSE close[i] - close[i - 1]]
        gain == [i \in 1..Len(close) |->
                    IF Lt(0, delta[i]) THEN delta[i] ELSE 0]
        loss == [i \in 1..Len(close) |->
                    IF Lt(delta[i], 0) THEN -delta[i] ELSE 0]
    IN [i \in 1..Len(close) |->
          LET avg_gain == rolling_sum(gain, window, i)
              avg_loss == rolling_sum(loss, window, i)
          IN IF avg_gain = NaN \/ avg_loss = 0 THEN NaN
             ELSE (100 * 100 * avg_gain) \div (avg_gain + avg_loss)]

\* rsi of every row, in hundredths rounded down: 100 - 100 / (1 + rs) is
\* 100 * avg_gain / (avg_gain + avg_loss); 0 / 0 is NaN and a gain over a
\* loss of 0 is inf, which gives 100
rsi(close, window) ==
    LET delta == [i \in 1..Len(close) |->
                    IF i = 1 THEN NaN ELSE close[i] - close[i - 1]]
        gain == [i \in 1..Len(close) |->
                    IF Lt(0, delta[i]) THEN delta[i] ELSE 0]
        loss == [i \in 1..Len(close) |->
                    IF Lt(delta[i], 0) THEN -delta[i] ELSE 0]
    IN [i \in 1..Len(close) |->
          LET avg_gain == rolling_sum(gain, window, i)
              avg_loss == rolling_sum(loss, window, i)
          IN IF avg_gain = NaN THEN NaN
             ELSE IF avg_loss = 0
             THEN (IF avg_gain = 0 THEN NaN ELSE 100 * 100)
             ELSE (100 * 100 * avg_gain) \div (avg_gain + avg_loss)]

\* one call of rsi over the closes of the frame
Rsi ==
    /\ \E window \in Periods :
          last' = [op |-> "app.rsi", window |-> window,
                   rsi |-> rsi(column(df, "Close"), window)]
    /\ UNCHANGED <<scheduler, news, holdings, stock_universe, df, cache, now, provider, threads>>

\* df['Close'].rolling(window).mean() of calculate_technical_indicators over
\* the closes of the frame (SMA_20, SMA_50), in units of 1/window
MovingAverage ==
    /\ \E window \in Periods :
          last' = [op |-> "sma", window |-> window,
                   sma |-> [i \in 1..Len(df) |->
                              rolling_sum(column(df, "Close"), window, i)]]
    /\ UNCHANGED <<scheduler, news, holdings, stock_universe, df, cache, now,
                   provider, threads>>

\* the numbers of price levels volume_profile is called with
Bins == {1, 2, 3}

\* one record per pair of neighbouring levels of np.linspace(price_min,
\* price_max, bins); a level is kept in units of 1/(bins - 1) and a price in
\* units of 1/(2 * (bins - 1)); the levels of an empty series are NaN
volume_profile(close, volume, bins) ==
    LET n == Len(close)
        values == {close[i] : i \in 1..n}
        price_levels ==
            [k \in 1..bins |->
                IF n = 0 THEN NaN
                ELSE SetMin(values) * (bins - 1)
                     + (k - 1) * (SetMax(values) - SetMin(values))]
    IN [k \in 1..(bins - 1) |->
          LET level_low == price_levels[k]
              level_high == price_levels[k + 1]
              masked == [i \in 1..n |->
                           IF /\ Le(level_low, close[i] * (bins - 1))
                              /\ Lt(close[i] * (bins - 1), level_high)
                           THEN volume[i] ELSE 0]
          IN [price |-> IF n = 0 THEN NaN ELSE level_low + level_high,
              volume |-> SumSeq(masked, 1, n)]]

\* one call of volume_profile over the closes and volumes of the frame
VolumeProfile ==
    /\ \E bins \in Bins :
          last' = [op |-> "app.volume_profile", bins |-> bins,
                   volume_at_price |->
                      volume_profile(column(df, "Close"),
                                     column(df, "Volume"), bins)]
    /\ UNCHANGED <<scheduler, news, holdings, stock_universe, df, cache, now, provider, threads>>

\* normalized without the clip
Unclipped(x) == x

\* .clip(-0.999, 0.999), in thousandths
clip(x) == IF x < -999 THEN -999 ELSE IF x > 999 THEN 999 ELSE x

\* 2 * ((hl2 - lowest) / (highest - lowest)) - 1 of every row, then
\* fillna(0) and the clip, in thousandths rounded towards zero; 0 / 0 is NaN
normalized(high, low, period) ==
    [i \in 1..Len(high) |->
        LET window == {high[k] + low[k] : k \in (i - period + 1)..i}
            highest == IF i < period THEN NaN ELSE SetMax(window)
            lowest == IF i < period THEN NaN ELSE SetMin(window)
            twice == 2 * (high[i] + low[i] - lowest) - (highest - lowest)
            ratio == IF highest = NaN \/ highest = lowest THEN NaN
                     ELSE IF twice >= 0
                     THEN (1000 * twice) \div (highest - lowest)
                     ELSE -((1000 * (-twice)) \div (highest - lowest))
        IN IF ratio = NaN THEN clip(0) ELSE clip(ratio)]

\* 0.5 * np.log((1 + x) / (1 - x)) in thousandths, x in thousandths, on the
\* values that normalized takes over the frames: the middle of the window,
\* a third of the way from it, its clipped ends, and the ends themselves
\* (the log of 2 / 0 and of 0 / 2)
half_log(x) ==
    CASE x = 0 -> 0
      [] x = 333 -> 346
      [] x = -333 -> -346
      [] x = 999 -> 3800
      [] x = -999 -> -3800
      [] x = 1000 -> Inf
      [] x = -1000 -> -Inf

\* 0.33 * fisher_value + 0.67 * fisher.iloc[i-1], in thousandths rounded
\* towards zero; inf - inf is NaN
smoothed(fisher_value, previous) ==
    LET infinite == {Inf, -Inf}
        sum == 33 * fisher_value + 67 * previous
    IN IF previous = NaN THEN NaN
       ELSE IF fisher_value \in infinite
       THEN (IF previous = -fisher_value THEN NaN ELSE fisher_value)
       ELSE IF previous \in infinite THEN previous
       ELSE IF sum >= 0 THEN sum \div 100 ELSE -((-sum) \div 100)

RECURSIVE fisher_loop(_, _, _)
\* for i in range(len(normalized))
fisher_loop(input, i, out) ==
    IF i > Len(input) THEN out
    ELSE IF i = 1
    THEN fisher_loop(input, 2, [fisher |-> <<0>>, fisher_signal |-> <<0>>])
    ELSE fisher_loop(input, i + 1,
            [fisher |-> Append(out.fisher,
                               smoothed(half_log(input[i]), out.fisher[i - 1])),
             fisher_signal |-> Append(out.fisher_signal, out.fisher[i - 1])])

\* the two series of fisher_transform, with the input of the log
fisher_transform(high, low, period) ==
    CHOOSE result \in
        { fisher_loop(input, 1, [fisher |-> <<>>, fisher_signal |-> <<>>])
            @@ [normalized |-> input] :
          input \in { normalized(high, low, period) } } : TRUE

\* one call of fisher_transform over the highs and lows of the frame
FisherTransform ==
    /\ \E period \in Periods :
          last' = [op |-> "app.fisher_transform", period |-> period]
                  @@ fisher_transform(column(df, "High"),
                                      column(df, "Low"), period)
    /\ UNCHANGED <<scheduler, news, holdings, stock_universe, df, cache, now, provider, threads>>

\* tr of every row: the largest of high - low, |high - close.shift(1)| and
\* |low - close.shift(1)|; the first row has no close before it and the
\* maximum skips the NaN
true_range(data) ==
    [i \in 1..Len(data) |->
        IF i = 1 THEN data[1].High - data[1].Low
        ELSE SetMax({ data[i].High - data[i].Low,
                      Abs(data[i].High - data[i - 1].Close),
                      Abs(data[i].Low - data[i - 1].Close) })]

RECURSIVE final_bands(_, _, _, _)
\* final_upper and final_lower: copies of the bands, then
\* for i in range(1, len(data))
final_bands(close, band, i, final) ==
    IF i > Len(band) THEN final
    ELSE IF i = 1 THEN final_bands(close, band, 2, <<band[1]>>)
    ELSE LET before == final[i - 1]
         IN final_bands(close, band, i + 1,
               Append(final,
                  [upper |-> IF \/ Lt(band[i].upper, before.upper)
                                \/ Lt(before.upper, close[i - 1])
                             THEN band[i].upper ELSE before.upper,
                   lower |-> IF \/ Lt(before.lower, band[i].lower)
                                \/ Lt(close[i - 1], before.lower)
                             THEN band[i].lower ELSE before.lower]))

RECURSIVE signal_loop(_, _, _, _)
\* the initial values, then for i in range(1, len(data))
signal_loop(close, final, i, out) ==
    IF i > Len(final) THEN out
    ELSE LET row ==
                IF Lt(final[i].upper, close[i])
                THEN [Supertrend |-> final[i].lower, Signal |-> "Buy"]
                ELSE IF i = 1 \/ Lt(close[i], final[i].lower)
                THEN [Supertrend |-> final[i].upper, Signal |-> "Sell"]
                ELSE out[i - 1]
         IN signal_loop(close, final, i + 1, Append(out, row))

\* the rows of the frame StockScreener._calculate_supertrend returns (its
\* columns Supertrend and Signal); no row when the frame is shorter than the
\* period
calculate_supertrend(data, period, multiplier) ==
    IF Len(data) < period THEN <<>>
    ELSE CHOOSE result \in
            { signal_loop(close, final, 1, <<>>) :
              close \in { [i \in 1..Len(data) |-> 2 * period * data[i].Close] },
              final \in { final_bands(
                             [i \in 1..Len(data) |-> 2 * period * data[i].Close],
                             bands(data, true_range(data), period, multiplier),
                             1, <<>>) } } : TRUE

\* one call of _calculate_supertrend over the frame
CalculateSupertrend ==
    /\ \E period \in Periods, multiplier \in Multipliers :
          last' = [op |-> "_calculate_supertrend", period |-> period,
                   multiplier |-> multiplier,
                   rows |-> calculate_supertrend(df, period, multiplier)]
    /\ UNCHANGED <<scheduler, news, holdings, stock_universe, df, cache, now, provider, threads>>

\* a frame is loaded and the screener is constructed
InitIndicators ==
    /\ ServicesConstructed
    /\ cache = <<>>
    /\ now = 0
    /\ last = [op |-> "init"]
    /\ threads = [t \in 1..NumCallers |-> Idle]
    /\ stock_universe = INDIAN_STOCKS
    /\ provider = [symbol \in Symbols |-> BasePayload]
    /\ df \in Frames

NextIndicators ==
    \/ Supertrend
    \/ Rsi
    \/ VolumeProfile
    \/ FisherTransform
    \/ CalculateSupertrend
    \/ MovingAverage

SpecIndicators == InitIndicators /\ [][NextIndicators]_vars

\* C15: the first direction of supertrend is +1 and its first value is hl2
\* of the first row; every later direction is +1 or -1, also on the rows
\* whose bands are not defined yet.
C15_DirectionDefined ==
    (last.op = "app.supertrend" /\ df # <<>>) =>
        /\ Len(last.trend_direction) = Len(df)
        /\ Len(last.supertrend_values) = Len(df)
        /\ last.trend_direction[1] = 1
        /\ last.supertrend_values[1] = last.period * (df[1].High + df[1].Low)
        /\ \A i \in 2..Len(df) : last.trend_direction[i] \in {1, -1}

\* supertrend ran over a frame whose first two rows have no bands and whose
\* closes fall from the first row on
C15_Witness ==
    /\ last.op = "app.supertrend"
    /\ last.period = 2
    /\ Len(df) = 4
    /\ \A i \in 1..2 :
          bands(df, high_low_range(df, 2), 2, last.multiplier)[i].upper = NaN
    /\ df[2].Close < df[1].Close
    /\ last.trend_direction = <<1, 1, 1, -1>>

\* C18: supertrend starts in an uptrend; at a later row it turns down when
\* the close is under the lower band of the row before, up when the close is
\* over the upper band of the row before, and holds otherwise, also while the
\* bands are undefined; its value is the lower band of the row in an uptrend
\* and the upper band of the row in a downtrend.
C18_TrendMachine ==
    (last.op = "app.supertrend" /\ df # <<>>) =>
        LET band == bands(df, high_low_range(df, last.period),
                          last.period, last.multiplier)
            direction == last.trend_direction
        IN /\ direction[1] = 1
           /\ \A i \in 2..Len(df) :
                LET close == 2 * last.period * df[i].Close
                IN /\ direction[i] =
                        IF Lt(close, band[i - 1].lower) THEN -1
                        ELSE IF Lt(band[i - 1].upper, close) THEN 1
                        ELSE direction[i - 1]
                   /\ last.supertrend_values[i] =
                        IF direction[i] = 1 THEN band[i].lower
                        ELSE band[i].upper

\* the trend turned down, held, and turned up again
C18_Witness ==
    /\ last.op = "app.supertrend"
    /\ Len(df) = 4
    /\ last.trend_direction = <<1, -1, -1, 1>>

\* C16: over a window of equal closes, where the average gain and the
\* average loss are both zero, rsi is 50.
C16_FlatIsFifty ==
    last.op = "app.rsi" =>
        \A i \in (last.window + 1)..Len(df) :
            (\A k \in (i - last.window)..i : df[k].Close = df[i].Close)
                => last.rsi[i] = 50 * 100

\* C17: the volumes of the records of volume_profile add up to the volume of
\* the series.
C17_VolumeConserved ==
    last.op = "app.volume_profile" =>
        SumSeq(column(last.volume_at_price, "volume"), 1,
               Len(last.volume_at_price))
            = SumSeq(column(df, "Volume"), 1, Len(df))

\* C20: fisher and its signal start at 0; the signal of a later row is the
\* fisher value of the row before; the input of the log is within -0.999 and
\* 0.999, and is 0 on the rows whose window is not full or is flat; no fisher
\* value is infinite or undefined.
C20_FisherScan ==
    (last.op = "app.fisher_transform" /\ df # <<>>) =>
        /\ Len(last.fisher) = Len(df)
        /\ Len(last.fisher_signal) = Len(df)
        /\ last.fisher[1] = 0
        /\ last.fisher_signal[1] = 0
        /\ \A i \in 2..Len(df) : last.fisher_signal[i] = last.fisher[i - 1]
        /\ \A i \in 1..Len(df) :
              /\ last.normalized[i] \in (-999)..999
              /\ last.fisher[i] \notin {NaN, Inf, -Inf}
              /\ (\/ i < last.period
                  \/ \A k \in (i - last.period + 1)..i :
                        df[k].High + df[k].Low = df[i].High + df[i].Low)
                     => last.normalized[i] = 0

\* fisher_transform ran over a frame with a row at the top of its window, a
\* row at the bottom of its window and a row in a flat window
C20_Witness ==
    /\ last.op = "app.fisher_transform"
    /\ last.period = 2
    /\ Len(df) = 4
    /\ last.normalized = <<0, 999, -999, 0>>
    /\ last.fisher[3] # 0
    /\ last.fisher_signal[4] = last.fisher[3]

\* C19: on every row the signal of StockScreener._calculate_supertrend is
\* 'Buy' where the direction of supertrend is +1 and 'Sell' where it is -1.
C19_SignalParity ==
    last.op = "_calculate_supertrend" =>
        LET direction ==
                supertrend(df, last.period, last.multiplier).trend_direction
        IN /\ Len(last.rows) = Len(df)
           /\ \A i \in 1..Len(df) :
                 last.rows[i].Signal = (IF direction[i] = 1 THEN "Buy"
                                        ELSE "Sell")

\* the declared maximum of each component of the financial score
MaxComponentScores ==
    [valuation |-> 25, profitability |-> 25, financial_health |-> 25,
     growth |-> 20, dividend |-> 5]

\* C21: calculate_financial_score returns a percentage between 0 and 100,
\* component scores between 0 and their declared maxima, and a total that is
\* the sum of the components.
C21_ScoreBounded ==
    last.op = "calculate_financial_score" =>
        LET components == last.result.component_scores
        IN /\ last.result.percentage \in 0..100
           /\ \A k \in DOMAIN MaxComponentScores :
                 components[k] \in 0..MaxComponentScores[k]
           /\ last.result.total_score =
                 components.valuation + components.profitability
                 + components.financial_health + components.growth
                 + components.dividend

\* the score of a bundle with an absent ratio, a ratio of zero, a negative
\* ratio and a dividend yield over the band
C21_Witness ==
    /\ last.op = "calculate_financial_score"
    /\ LET f == provider[last.symbol].fundamental
       IN /\ f.pe_ratio = None
          /\ f.profit_margin = 0
          /\ f.roe = -5
          /\ f.dividend_yield = 8
    /\ last.result.component_scores.dividend = 3
    /\ last.result.total_score > 3

\* x is a number other than 0
Reported(x) == x \notin {None, NaN, 0}

\* the points of the allocation a technical row earns
PointsEarned(t) ==
    (IF Reported(t.RSI) /\ t.RSI \in 40..60 THEN 20
     ELSE IF Reported(t.RSI) /\ t.RSI \in 30..70 THEN 15 ELSE 0)
    + (IF Reported(t.SMA_20) /\ t.Close > t.SMA_20 THEN 15 ELSE 0)
    + (IF Reported(t.SMA_50) /\ t.Close > t.SMA_50 THEN 15 ELSE 0)
    + (IF Reported(t.MACD) /\ Reported(t.MACD_Signal) /\ t.MACD > t.MACD_Signal
       THEN 20 ELSE 0)
    + (IF Reported(t.Volume_avg20) /\ 10 * t.Volume > 12 * t.Volume_avg20
       THEN 10 ELSE 0)

\* the points a technical row could earn: those of the RSI count only when
\* the row has an RSI
PointsAvailable(t) == (IF Reported(t.RSI) THEN 20 ELSE 0) + 15 + 15 + 20 + 10

\* C22: the technical_score of every record of technical_screen is between 0
\* and 100 and is 100 * points earned / points available, with points
\* available above zero.
C22_TechnicalScore ==
    last.op = "technical" =>
        \A i \in 1..Len(last.result) :
            LET t == cache[cache_key(last.result[i].symbol)].data.technical
                score == last.result[i].technical_score
            IN /\ PointsAvailable(t) > 0
               /\ score \in 0..(100 * ScoreScale)
               /\ score * PointsAvailable(t) = 100 * ScoreScale * PointsEarned(t)

\* a record with an RSI of 0, which does not count, that earned the points of
\* both averages: 30 of 60
C22_Witness ==
    /\ last.op = "technical"
    /\ last.result # <<>>
    /\ LET t == cache[cache_key(last.result[1].symbol)].data.technical
       IN /\ t.RSI = 0
          /\ t.SMA_20 = 95
          /\ t.SMA_50 = 90
          /\ t.Volume_avg20 = NaN
          /\ last.result[1].technical_score = 50 * ScoreScale

\* the result of technical_screen or fundamental_screen with the criteria
\* record of a preset, over the data the cache holds
Parameterized(preset) ==
    IF preset = "momentum"
    THEN technical_screen(momentum_criteria, cache, now, provider).result
    ELSE fundamental_screen(
            CASE preset = "value" -> value_criteria
              [] preset = "growth" -> growth_criteria
              [] preset = "dividend" -> dividend_criteria
              [] preset = "quality" -> quality_criteria
              [] preset = "sector_leaders" -> sector_criteria("Technology"),
            cache, now, provider).result

\* C23: the result of a preset scan is, in content and in order, the result
\* of technical_screen or fundamental_screen with the criteria record of the
\* preset.
C23_PresetIsParameterization ==
    last.op = "preset" => last.result = Parameterized(last.criteria)

\* a frame of rows with High = Low = Close whose close rises at every row
Rising ==
    /\ \A i \in 1..Len(df) : df[i].High = df[i].Close /\ df[i].Low = df[i].Close
    /\ \A i \in 2..Len(df) : df[i - 1].Close < df[i].Close

\* C24: over closes that rise at every row, rsi is 100 on every row after
\* its warm-up, the direction of supertrend is +1 on every row, and a
\* moving average over two rows or more is under the close on every row that
\* has one.
C24_RisingSeries ==
    Rising =>
        /\ last.op = "app.rsi" =>
              \A i \in (last.window + 1)..Len(df) : last.rsi[i] = 100 * 100
        /\ last.op = "app.supertrend" =>
              \A i \in 1..Len(df) : last.trend_direction[i] = 1
        /\ (last.op = "sma" /\ last.window >= 2) =>
              \A i \in 2..Len(df) :
                  last.sma[i] # NaN => last.sma[i] < last.window * df[i].Close

\* rsi ran over four rising closes with a window of two rows
C24_Witness ==
    /\ Rising
    /\ Len(df) = 4
    /\ last.op = "app.rsi"
    /\ last.window = 2
    /\ last.rsi[3] = 100 * 100
    /\ last.rsi[4] = 100 * 100

\* C25: a lookup that a scan has begun returns to the scan, whatever the
\* providers do: the scan goes on to its next symbol.
C25_LookupReturns ==
    \A t \in 1..NumCallers :
        (threads[t].pc = "fetch_fundamental") ~> (threads[t].pc = "idle")

FetchFails(symbol) ==
    \/ provider[symbol] = ProviderRaises
    \/ DOMAIN provider[symbol].fundamental = {}
    \/ provider[symbol].technical.nbars = 0

\* C27: a lookup that finds no entry within the TTL and whose fetch fails
\* returns None and leaves the cache as it was, so that no entry within the
\* TTL exists for the symbol afterwards; a lookup that finds no entry within
\* the TTL calls the providers.
C27_FailedFetch ==
    [][\A symbol \in Symbols :
          (/\ now' = now
           /\ provider' = provider
           /\ last'.op = "lookup"
           /\ last'.symbol = symbol
           /\ ~HasFresh(cache, now, symbol))
          => /\ last'.fetched = TRUE
             /\ FetchFails(symbol) =>
                   /\ last'.data = NoData
                   /\ cache' = cache
                   /\ ~HasFresh(cache', now', symbol)]_vars

\* a failed fetch over an expired entry, which still has its old timestamp
C27_Witness ==
    /\ last.op = "lookup"
    /\ last.fetched = TRUE
    /\ last.data = NoData
    /\ last.prior # None
    /\ EntryOf(cache, last.symbol).timestamp = last.prior
    /\ now - last.prior >= cache_expiry

----------------------------------------------------------------------------
(* scheduler.TradingScheduler: start_scheduler, stop_scheduler and the     *)
(* loop threads they start. loops[i] is where thread i is: "while" (about  *)
(* to test self.running), "sleep" (in run_pending or time.sleep(60)) or    *)
(* "exited"                                                                *)

\* the screener, the news aggregator and the portfolio as constructed, over
\* providers that answer
InitServices == Constructed /\ provider = [symbol \in Symbols |-> BasePayload]

\* start_scheduler(): returns when running is set, else sets it and starts
\* a new thread on run_scheduler
StartScheduler ==
    /\ IF scheduler.running
       THEN /\ last' = [op |-> "start_scheduler", started |-> FALSE]
            /\ UNCHANGED scheduler
       ELSE /\ Len(scheduler.loops) < MaxLoops
            /\ scheduler' = [running |-> TRUE,
                             scheduler_thread |-> Len(scheduler.loops) + 1,
                             loops |-> Append(scheduler.loops, "while")]
            /\ last' = [op |-> "start_scheduler", started |-> TRUE]
    /\ UNCHANGED <<news, holdings, stock_universe, df, cache, now, provider, threads>>

\* stop_scheduler(): returns when running is not set, else clears it and
\* joins scheduler_thread for 5 seconds. A thread at the test of its loop
\* sees the cleared flag and ends within the join; a thread in its sleep of
\* 60 seconds ends within the join when it wakes in time, and otherwise the
\* join times out and the thread sleeps on.
StopScheduler ==
    /\ IF ~scheduler.running
       THEN /\ last' = [op |-> "stop_scheduler", stopped |-> FALSE, joined |-> FALSE]
            /\ UNCHANGED scheduler
       ELSE \E joined \in BOOLEAN :
               /\ scheduler.scheduler_thread # None
               /\ ~joined => scheduler.loops[scheduler.scheduler_thread] = "sleep"
               /\ scheduler' =
                     [scheduler EXCEPT
                        !.running = FALSE,
                        !.loops = IF joined
                                  THEN [@ EXCEPT ![scheduler.scheduler_thread] = "exited"]
                                  ELSE @]
               /\ last' = [op |-> "stop_scheduler", stopped |-> TRUE, joined |-> joined]
    /\ UNCHANGED <<news, holdings, stock_universe, df, cache, now, provider, threads>>

\* one step of run_scheduler in thread i: the test of 'while self.running',
\* or the end of run_pending and the sleep
RunScheduler(i) ==
    /\ i \in 1..Len(scheduler.loops)
    /\ scheduler.loops[i] # "exited"
    /\ scheduler' =
          [scheduler EXCEPT
             !.loops[i] = IF scheduler.loops[i] = "sleep" THEN "while"
                          ELSE IF scheduler.running THEN "sleep"
                          ELSE "exited"]
    /\ UNCHANGED <<news, holdings, stock_universe, df, cache, now, provider, last, threads>>

NextScheduler ==
    \/ StartScheduler
    \/ StopScheduler
    \/ \E i \in 1..MaxLoops : RunScheduler(i)

SpecScheduler == InitServices /\ [][NextScheduler]_vars

\* the threads whose run_scheduler has not returned
AliveLoops == {i \in 1..Len(scheduler.loops) : scheduler.loops[i] # "exited"}

\* C28: at most one loop thread of the scheduler is alive.
C28_SingleLoop == Cardinality(AliveLoops) <= 1

----------------------------------------------------------------------------
(* news_scraper.NewsAggregator: the cache file of the news. news.clock is  *)
(* datetime.now() in seconds, news.exists whether news_cache.json exists,  *)
(* news.timestamp and news.articles what it holds                          *)

\* half an hour passes
NewsTick ==
    /\ news.clock + 1800 <= MaxClock
    /\ news' = [news EXCEPT !.clock = @ + 1800]
    /\ UNCHANGED <<scheduler, holdings, stock_universe, df, cache, now, provider, last, threads>>

\* save_news_cache(articles)
SaveNewsCache ==
    \E articles \in {<<>>, <<"NIFTY 50 Surges 250 Points">>} :
        /\ news' = [news EXCEPT !.exists = TRUE, !.timestamp = news.clock,
                                !.articles = articles]
        /\ last' = [op |-> "save_news_cache", articles |-> articles]
        /\ UNCHANGED <<scheduler, holdings, stock_universe, df, cache, now, provider, threads>>

\* (datetime.now() - cache_time).seconds
seconds(elapsed) == elapsed % SecondsPerDay

\* get_cached_news(): cached is FALSE when the call returns None
GetCachedNews ==
    /\ last' = IF news.exists /\ seconds(news.clock - news.timestamp) < cache_duration
               THEN [op |-> "get_cached_news", elapsed |-> news.clock - news.timestamp,
                     cached |-> TRUE, articles |-> news.articles]
               ELSE [op |-> "get_cached_news",
                     elapsed |-> IF news.exists THEN news.clock - news.timestamp ELSE None,
                     cached |-> FALSE, articles |-> <<>>]
    /\ UNCHANGED <<scheduler, news, holdings, stock_universe, df, cache, now, provider, threads>>

NextNews == NewsTick \/ SaveNewsCache \/ GetCachedNews

SpecNews == InitServices /\ [][NextNews]_vars

\* C29: get_cached_news returns the cached articles only when less than
\* cache_duration seconds have passed since they were saved: with 3600
\* seconds or more passed it returns None.
C29_ExpiredReturnsNone ==
    (last.op = "get_cached_news" /\ last.elapsed # None /\ last.elapsed >= cache_duration)
        => ~last.cached

----------------------------------------------------------------------------
(* portfolio.Portfolio: holdings is the list self.holdings, each holding   *)
(* with its symbol, its quantity and its buy_price in rupees (the average *)
(* cost is rounded down to a rupee where python keeps a float)             *)

\* add_holding that appends a holding whether or not the symbol is held
AddHoldingAppending ==
    \E symbol \in {"RELIANCE", "TCS"}, quantity \in {1, 2}, buy_price \in {100, 102} :
        /\ Len(holdings) < 3
        /\ holdings' = Append(holdings, [symbol |-> symbol, quantity |-> quantity,
                                         buy_price |-> buy_price])
        /\ last' = [op |-> "add_holding", symbol |-> symbol, quantity |-> quantity,
                    returned |-> TRUE]
        /\ UNCHANGED <<scheduler, news, stock_universe, df, cache, now, provider, threads>>

\* add_holding(symbol, quantity, buy_price)
AddHolding ==
    \E symbol \in {"RELIANCE", "TCS"}, quantity \in {1, 2}, buy_price \in {100, 102} :
        LET held == {i \in 1..Len(holdings) : holdings[i].symbol = symbol}
        IN /\ IF held # {}
              THEN LET i == CHOOSE i \in held : \A k \in held : i <= k
                       holding == holdings[i]
                       total_cost == holding.quantity * holding.buy_price
                                         + quantity * buy_price
                       total_quantity == holding.quantity + quantity
                   IN /\ total_quantity <= MaxQuantity
                      /\ holdings' = [holdings EXCEPT
                                         ![i].buy_price = total_cost \div total_quantity,
                                         ![i].quantity = total_quantity]
              ELSE holdings' = Append(holdings, [symbol |-> symbol, quantity |-> quantity,
                                                 buy_price |-> buy_price])
           /\ last' = [op |-> "add_holding", symbol |-> symbol, quantity |-> quantity,
                       returned |-> TRUE]
           /\ UNCHANGED <<scheduler, news, stock_universe, df, cache, now, provider, threads>>

\* remove_holding(symbol, quantity): quantity is None when it is left out
RemoveHolding ==
    \E symbol \in {"RELIANCE", "TCS"}, quantity \in {None, 1, 2, 3} :
        LET held == {i \in 1..Len(holdings) : holdings[i].symbol = symbol}
        IN /\ IF held # {}
              THEN LET i == CHOOSE i \in held : \A k \in held : i <= k
                   IN IF quantity = None \/ quantity >= holdings[i].quantity
                      THEN holdings' = [k \in 1..(Len(holdings) - 1) |->
                                           IF k < i THEN holdings[k] ELSE holdings[k + 1]]
                      ELSE holdings' = [holdings EXCEPT ![i].quantity = @ - quantity]
              ELSE UNCHANGED holdings
           /\ last' = [op |-> "remove_holding", symbol |-> symbol, quantity |-> quantity,
                       returned |-> held # {}]
           /\ UNCHANGED <<scheduler, news, stock_universe, df, cache, now, provider, threads>>

NextPortfolio == AddHolding \/ RemoveHolding

SpecPortfolio == InitServices /\ [][NextPortfolio]_vars

\* the quantity a list of holdings has of a symbol: that of its first
\* holding of the symbol, 0 without one
QuantityHeld(h, symbol) ==
    LET held == {i \in 1..Len(h) : h[i].symbol = symbol}
    IN IF held = {} THEN 0 ELSE h[CHOOSE i \in held : \A k \in held : i <= k].quantity

\* C30: after every add_holding and remove_holding the portfolio has at most
\* one holding of a symbol and every quantity is positive; add_holding
\* raises the quantity held of its symbol by the quantity added;
\* remove_holding of a symbol that is held removes the holding when no
\* quantity is given or the quantity is at least the one held and otherwise
\* lowers the quantity by it; remove_holding of a symbol that is not held
\* returns False and changes nothing; no call touches another symbol.
C30_Holdings ==
    [][/\ \A i, k \in 1..Len(holdings') : holdings'[i].symbol = holdings'[k].symbol => i = k
       /\ \A i \in 1..Len(holdings') : holdings'[i].quantity > 0
       /\ \A symbol \in Symbols \ {last'.symbol} :
             QuantityHeld(holdings', symbol) = QuantityHeld(holdings, symbol)
       /\ last'.op = "add_holding" =>
             /\ last'.returned
             /\ QuantityHeld(holdings', last'.symbol)
                   = QuantityHeld(holdings, last'.symbol) + last'.quantity
       /\ last'.op = "remove_holding" =>
             LET q == QuantityHeld(holdings, last'.symbol)
             IN IF q = 0
                THEN ~last'.returned /\ holdings' = holdings
                ELSE /\ last'.returned
                     /\ QuantityHeld(holdings', last'.symbol) =
                           IF last'.quantity = None \/ last'.quantity >= q
                           THEN 0 ELSE q - last'.quantity]_vars

\* a holding of 3 after a removal of 1, beside a holding of another symbol
C30_Witness ==
    /\ last.op = "remove_holding"
    /\ last.returned
    /\ last.quantity = 1
    /\ QuantityHeld(holdings, last.symbol) = 3
    /\ Len(holdings) = 2

====
